---- MODULE Spec2Model ----
(***************************************************************************)
(* State-machine model of the tennis-scheduler core: the schedule table,   *)
(* the stored OAuth token, the APScheduler job table, the process          *)
(* life cycle (main), the HTTP handlers that create and cancel schedules   *)
(* and refresh the token, and the job functions the scheduler fires.       *)
(* Instants are Unix seconds (time.time(), datetime in UTC); a stored      *)
(* DateTime column is a zone-less Eastern wall clock, also in seconds.     *)
(***************************************************************************)
EXTENDS Integers, Sequences, FiniteSets, TLC

(* ----------------------------- bounds --------------------------------- *)
\* rows the schedules table may hold
MaxEntries == 2
\* token-endpoint exchanges (and browser logins) performed in one behaviour
MaxExchanges == 2
\* requests the HTTP API serves in one behaviour
MaxRequests == 1
MaxInsertEntries == 4
MaxReconcileRuns == 1
MaxLatency == 1
MaxRearmCalls == 2
\* the wall-clock instant of the first state
StartTime == 1000000
\* the clock never passes StartTime + Horizon
Horizon == 800
\* the same for the behaviours that follow the token refresh cadence alone
TokenHorizon == 1600
\* seconds after StartTime at which America/New_York falls back from EDT to EST
DstEndAfter == 700

(* ------------------------- program constants -------------------------- *)
GUARD_BAND == 2
SAFETY_MARGIN == 30
PREP_LEAD == 240
GRACE == 60
MAX_INSTANCES == 52
RETRY_BACKOFF == 300
REFRESH_INTERVAL == 1200
ADVANCE_WINDOW == 604800
IMMEDIATE_DELAY == 30
CONFIG_IMMEDIATE_DELAY == 1
INITIAL_REFRESH_LIFETIME == 1200
AMENITY_COURT_1 == 8
AMENITY_COURT_2 == 10
WEEK == 604800
MISFIRE_GRACE_TIME == 1
EDT_OFFSET == 14400
EST_OFFSET == 18000

MaxTime == StartTime + Horizon
DstEnd == StartTime + DstEndAfter

NoCourt == "none"
NoToken == [present |-> FALSE]

(* ------------------------- time normalization ------------------------- *)
\* datetime.astimezone(ZoneInfo("America/New_York")) of an instant, kept as
\* the wall clock a DateTime column stores (the zone and the fold are lost)
astimezone_eastern(inst) ==
    IF inst < DstEnd THEN inst - EDT_OFFSET ELSE inst - EST_OFFSET

\* to_eastern(naive).astimezone(UTC): a zone-less wall clock is taken as
\* Eastern; an ambiguous wall clock (fold = 0) is the first, EDT, occurrence
to_eastern_utc(wall) ==
    IF wall < DstEnd - EDT_OFFSET THEN wall + EDT_OFFSET ELSE wall + EST_OFFSET

(* ----------------------------- secret box ----------------------------- *)
fernet_encrypt(plain) == <<"enc", plain>>
fernet_decrypt(cipher) == cipher[2]

(* ------------------------------- state -------------------------------- *)
VARIABLES
    now,        \* the wall clock, seconds
    phase,      \* "down" | "up": is the process running (scheduler started)
    config,     \* schedules.json, read again by every run of main
    schedules,  \* the schedules table: row id = index
    token,      \* the tokens table's single row, or NoToken
    jobs,       \* the APScheduler job table: a set of job records
    inflight,   \* book_slot calls submitted to the pool and not yet finished
    cancelling, \* cancel_schedule requests between commit and remove_job
    exchanges,  \* token sets the token endpoint has issued so far
    requests,   \* requests the HTTP API has served so far
    dirty,      \* attributes of the token object assigned in the session of
                \* main and not yet committed
    threads,    \* pool and API threads inside get_fresh_access_token or
                \* book_slot, each with its position
    last        \* the operation that produced this state, and its outcome

vars == <<now, phase, config, schedules, token, jobs, inflight,
          cancelling, exchanges, requests, dirty, threads, last>>

Ids == 1..Len(schedules)

Job(id, run_date, func, trigger) ==
    [id |-> id, run_date |-> run_date, func |-> func, trigger |-> trigger]

BookingId(i) == <<"booking", i>>
PlaywrightId(i) == <<"playwright_auth", i>>
IntervalId == <<"token_refresh_interval", 0>>
LegacyRefreshId == <<"token_refresh", 0>>
ExpiryProtectionId == <<"token_refresh_expiry_protection", 0>>
RetryId == <<"token_refresh_retry", 0>>

JobsWithId(J, id) == {j \in J : j.id = id}

\* scheduler.remove_job(id) inside try/except: a missing job is ignored
remove_job(J, id) == {j \in J : j.id # id}

\* scheduler.add_job(..., replace_existing=...): with replace_existing the job
\* of the same id is replaced; without it the job is added (a job of the same
\* id would raise ConflictingIdError when the store takes it)
add_job(J, j, replace_existing) ==
    IF replace_existing THEN remove_job(J, j.id) \cup {j} ELSE J \cup {j}

\* the record of the operation that ran last at the present instant: what
\* ran, for which row, the path it took, the booking calls it made, what it
\* returned and how many token-endpoint exchanges it performed
Last(op, id, path, calls, ret, exch) ==
    [op |-> op, id |-> id, path |-> path, calls |-> calls, ret |-> ret,
     exch |-> exch]

NoOperation == Last("none", 0, "none", <<>>, "none", 0)

\* a session in which no attribute of the token object has been assigned
NoWrites == [f \in {} |-> 0]

(* ---------------------------- init_scheduler -------------------------- *)
trigger_instant(s) == to_eastern_utc(s.trigger_time)
desired_instant(s) == to_eastern_utc(s.desired_time)

\* rescue path whose booking is armed for the same instant as the login
rescue_jobs_without_grace(i, t) ==
    { Job(PlaywrightId(i), t, "playwright_login_wrapper", "date"),
      Job(BookingId(i), t, "book_slot_wrapper", "date") }

\* the rescue path of init_scheduler: a past-due one-off whose desired time
\* is still ahead gets a browser login now and its booking a minute later
rescue_jobs(i, t) ==
    { Job(PlaywrightId(i), t, "playwright_login_wrapper", "date"),
      Job(BookingId(i), t + GRACE, "book_slot_wrapper", "date") }

\* normal path that still arms the login when its instant is the present one
normal_jobs_login_at_present(i, trigger_time_utc, t) ==
    (IF trigger_time_utc - PREP_LEAD >= t
     THEN { Job(PlaywrightId(i), trigger_time_utc - PREP_LEAD,
                "playwright_login_wrapper", "date") }
     ELSE {})
    \cup { Job(BookingId(i), trigger_time_utc, "book_slot", "date") }

\* the normal path of init_scheduler: the browser login 4 minutes before the
\* trigger when that instant is still ahead, and the booking at the trigger
normal_jobs(i, trigger_time_utc, t) ==
    (IF trigger_time_utc - PREP_LEAD > t
     THEN { Job(PlaywrightId(i), trigger_time_utc - PREP_LEAD,
                "playwright_login_wrapper", "date") }
     ELSE {})
    \cup { Job(BookingId(i), trigger_time_utc, "book_slot", "date") }

\* loop body that rescues a past-due row whatever its type
reconcile_entry_any_type(S, i, t) ==
    IF trigger_instant(S[i]) <= t
    THEN IF desired_instant(S[i]) > t THEN rescue_jobs(i, t) ELSE {}
    ELSE normal_jobs(i, trigger_instant(S[i]), t)

\* the jobs the loop body of init_scheduler adds for one pending row
reconcile_entry(S, i, t) ==
    LET trigger_time_utc == trigger_instant(S[i])
        desired_time_utc == desired_instant(S[i])
    IN  IF trigger_time_utc <= t
        THEN IF S[i].type = "one-off" /\ desired_time_utc > t
             THEN rescue_jobs(i, t)
             ELSE {}
        ELSE normal_jobs(i, trigger_time_utc, t)

\* re-arming that adds its jobs without removing or replacing the armed ones
schedule_next_token_refresh_adding(J, tok, t) ==
    IF ~tok.present THEN J
    ELSE LET J2 == add_job(J, Job(IntervalId, t + REFRESH_INTERVAL,
                                  "auto_refresh_token", "interval"), FALSE)
             next_refresh_time == tok.refresh_expiry - SAFETY_MARGIN
         IN  IF next_refresh_time > t
             THEN add_job(J2, Job(ExpiryProtectionId, next_refresh_time,
                                  "auto_refresh_token", "date"), FALSE)
             ELSE J2

\* schedule_next_token_refresh(scheduler, db, token_id, fernet) at time t
schedule_next_token_refresh(J, tok, t) ==
    IF ~tok.present THEN J
    ELSE LET J1 == remove_job(remove_job(J, LegacyRefreshId), IntervalId)
             J2 == add_job(J1, Job(IntervalId, t + REFRESH_INTERVAL,
                                   "auto_refresh_token", "interval"), TRUE)
             next_refresh_time == tok.refresh_expiry - SAFETY_MARGIN
         IN  IF next_refresh_time > t
             THEN add_job(J2, Job(ExpiryProtectionId, next_refresh_time,
                                  "auto_refresh_token", "date"), TRUE)
             ELSE J2

\* a start of init_scheduler that leaves the jobs of the scheduler armed
remove_no_jobs(J) == J

\* scheduler.remove_all_jobs()
remove_all_jobs(J) == {}

\* a run that arms the refresh cadence for any token row, expired or not
init_scheduler_rearming_expired(J, S, tok, t) ==
    LET pending == {i \in 1..Len(S) : S[i].status = "pending"}
        entryJobs == remove_all_jobs(J)
                     \cup UNION {reconcile_entry(S, i, t) : i \in pending}
    IN  IF tok.present
        THEN schedule_next_token_refresh(entryJobs, tok, t)
        ELSE entryJobs

\* init_scheduler(scheduler, db) on a scheduler holding the jobs J: the job
\* table it leaves
init_scheduler(J, S, tok, t) ==
    LET pending == {i \in 1..Len(S) : S[i].status = "pending"}
        entryJobs == remove_all_jobs(J)
                     \cup UNION {reconcile_entry(S, i, t) : i \in pending}
    IN  IF tok.present /\ tok.refresh_expiry # 0 /\ tok.refresh_expiry > t
        THEN schedule_next_token_refresh(entryJobs, tok, t)
        ELSE entryJobs

(* ------------------------------ calendar ------------------------------ *)
DAY == 86400

\* datetime.weekday() of an Eastern wall clock (Monday = 0); day 0 of the
\* Unix calendar is a Thursday
weekday(wall) == ((wall \div DAY) + 3) % 7

(* ----------------------------- load_configs --------------------------- *)
\* parse_eastern_time(s["desired_time"]): the string is an Eastern wall clock
parse_eastern_time(wall) == wall

config_row(c, t) ==
    LET desired_time_utc == to_eastern_utc(parse_eastern_time(c.desired_time))
        trigger_time_utc == IF desired_time_utc - t <= ADVANCE_WINDOW
                            THEN t + CONFIG_IMMEDIATE_DELAY
                            ELSE desired_time_utc - ADVANCE_WINDOW
    IN  [type |-> "one-off",
         desired_time |-> parse_eastern_time(c.desired_time),
         trigger_time |-> astimezone_eastern(trigger_time_utc),
         court_id |-> c.court_id,
         status |-> "pending"]

\* rrulestr(s["rrule"], dtstart): the wall clocks of a weekly rule, the first
\* one on or after dtstart
rrulestr(rule, dtstart) ==
    LET days == (rule.byday + 7 - weekday(dtstart)) % 7
        first == dtstart + days * DAY + rule.time
    IN  [k \in 1..rule.count |-> first + (k - 1) * WEEK]

\* the rows of a recurring entry: the first MAX_INSTANCES instances of its
\* rule from today's midnight, each with its trigger 168 hours before
config_recurring_rows(c, t) ==
    LET dtstart == (astimezone_eastern(t) \div DAY) * DAY
        rrule == rrulestr(c.rrule, dtstart)
        count == IF Len(rrule) < MAX_INSTANCES THEN Len(rrule)
                 ELSE MAX_INSTANCES
    IN  [k \in 1..count |->
            LET eastern_dt_utc == to_eastern_utc(rrule[k])
                trigger_time_utc == eastern_dt_utc - ADVANCE_WINDOW
            IN  [type |-> "recurring",
                 desired_time |-> rrule[k],
                 trigger_time |-> astimezone_eastern(trigger_time_utc),
                 court_id |-> c.court_id,
                 status |-> "pending"]]

RECURSIVE config_rows(_, _)
config_rows(cfg, t) ==
    IF cfg = <<>> THEN <<>>
    ELSE (IF Head(cfg).type = "one-off" THEN <<config_row(Head(cfg), t)>>
          ELSE config_recurring_rows(Head(cfg), t))
         \o config_rows(Tail(cfg), t)

\* the token row load_configs leaves: created on the first run, its refresh
\* secret overwritten from tokens.json on every later run
FileRefreshToken == <<"refresh", -1>>

load_token(tok, t) ==
    IF ~tok.present
    THEN [present |-> TRUE,
          access_token |-> fernet_encrypt(""),
          refresh_token |-> fernet_encrypt(FileRefreshToken),
          access_expiry |-> 0,
          refresh_expiry |-> t + INITIAL_REFRESH_LIFETIME,
          session_state |-> ""]
    ELSE [tok EXCEPT !.refresh_token = fernet_encrypt(FileRefreshToken)]

(* --------------------------- schedule creation ------------------------ *)
\* get_next_day_occurrence(day_of_week, time_str, eastern) at time t: the
\* wall clock of the next occurrence of that weekday at that time of day
get_next_day_occurrence(target_day, time_of_day, t) ==
    LET now_wall == astimezone_eastern(t)
        diff == target_day - weekday(now_wall)
        target_time_today == (now_wall \div DAY) * DAY + time_of_day
        days_ahead == IF diff < 0 THEN diff + 7
                      ELSE IF diff = 0 /\ now_wall >= target_time_today THEN 7
                      ELSE diff
    IN  ((now_wall \div DAY) + days_ahead) * DAY + time_of_day

\* create_single_schedule(db, desired_time, court_id, duration, type, rrule)
create_single_schedule(desired_time, court_id, schedule_type, t) ==
    LET desired_time_utc == to_eastern_utc(desired_time)
        trigger_time == IF desired_time_utc - t <= ADVANCE_WINDOW
                        THEN t + IMMEDIATE_DELAY
                        ELSE desired_time_utc - ADVANCE_WINDOW
    IN  [type |-> schedule_type,
         desired_time |-> desired_time,
         trigger_time |-> astimezone_eastern(trigger_time),
         court_id |-> court_id,
         status |-> "pending"]

\* expansion that adds one row for a recurrence of a single occurrence
request_rows_per_occurrence(req, t) ==
    IF req.schedule_type = "one-off"
    THEN [k \in 1..2 |->
            create_single_schedule(req.desired + (k - 1) * WEEK, req.court_id,
                                   "one-off", t)]
    ELSE LET next_occurrence ==
                 get_next_day_occurrence(req.day_of_week, req.time, t)
         IN  [k \in 1..req.occurrences |->
                create_single_schedule(next_occurrence + (k - 1) * WEEK,
                                       req.court_id, "recurring", t)]

\* the rows create_schedules_from_request adds for a request
request_rows(req, t) ==
    IF req.schedule_type = "one-off"
    THEN [k \in 1..2 |->
            create_single_schedule(req.desired + (k - 1) * WEEK, req.court_id,
                                   "one-off", t)]
    ELSE LET next_occurrence ==
                 get_next_day_occurrence(req.day_of_week, req.time, t)
             count == IF req.occurrences = 1 THEN 2 ELSE req.occurrences
         IN  [k \in 1..count |->
                create_single_schedule(next_occurrence + (k - 1) * WEEK,
                                       req.court_id, "recurring", t)]

\* insertion that clears the job table first, as init_scheduler does
add_schedule_to_scheduler_after_remove_all(J, S, i, t) ==
    LET trigger_time_utc == trigger_instant(S[i])
        J1 == IF trigger_time_utc > t /\ trigger_time_utc - PREP_LEAD > t
              THEN {Job(PlaywrightId(i), trigger_time_utc - PREP_LEAD,
                        "playwright_login_wrapper", "date")}
              ELSE {}
    IN  add_job(J1, Job(BookingId(i), trigger_time_utc, "book_slot_wrapper",
                        "date"), FALSE)

\* insertion whose login job is armed for the instant of the booking job
add_schedule_to_scheduler_login_at_trigger(J, S, i, t) ==
    LET trigger_time_utc == trigger_instant(S[i])
        J1 == IF trigger_time_utc > t /\ trigger_time_utc - PREP_LEAD > t
              THEN add_job(J, Job(PlaywrightId(i), trigger_time_utc,
                                  "playwright_login_wrapper", "date"), FALSE)
              ELSE J
    IN  add_job(J1, Job(BookingId(i), trigger_time_utc, "book_slot_wrapper",
                        "date"), FALSE)

\* add_schedule_to_scheduler(scheduler, schedule) at time t
add_schedule_to_scheduler(J, S, i, t) ==
    LET trigger_time_utc == trigger_instant(S[i])
        J1 == IF trigger_time_utc > t /\ trigger_time_utc - PREP_LEAD > t
              THEN add_job(J, Job(PlaywrightId(i), trigger_time_utc - PREP_LEAD,
                                  "playwright_login_wrapper", "date"), FALSE)
              ELSE J
    IN  add_job(J1, Job(BookingId(i), trigger_time_utc, "book_slot_wrapper",
                        "date"), FALSE)

RECURSIVE add_schedules(_, _, _, _)
add_schedules(J, S, ids, t) ==
    IF ids = {} THEN J
    ELSE LET i == CHOOSE x \in ids : \A y \in ids : x <= y
         IN  add_schedules(add_schedule_to_scheduler(J, S, i, t), S,
                           ids \ {i}, t)

(* ------------------------------- inputs ------------------------------- *)
\* schedules.json: nothing, a one-off beyond the 7-day window without a
\* court, or a one-off inside the window
ConfigFiles ==
    { <<>>,
      <<[type |-> "one-off",
         desired_time |-> astimezone_eastern(StartTime + WEEK + 600),
         court_id |-> NoCourt]>>,
      <<[type |-> "one-off",
         desired_time |-> astimezone_eastern(StartTime + 900),
         court_id |-> "2"]>> }

\* the requests POST /api/schedules receives: a one-off beyond the 7-day
\* window or inside it, or a weekly recurrence of 1 to MaxEntries occurrences
Requests ==
    {[schedule_type |-> "one-off", desired |-> astimezone_eastern(d),
      court_id |-> c, day_of_week |-> 0, time |-> 0, occurrences |-> 1] :
        d \in {StartTime + 500, StartTime + WEEK + 900}, c \in {"1", "2"}}
    \cup
    {[schedule_type |-> "recurring", desired |-> 0, court_id |-> "1",
      day_of_week |-> weekday(astimezone_eastern(StartTime)),
      time |-> (astimezone_eastern(StartTime) % DAY) + 1200,
      occurrences |-> n] : n \in 1..MaxEntries}

\* what an earlier run of the process left in the database: the instant at
\* which it served a creation request, the rows of that request with the
\* statuses it gave them, and the token row of its last refresh
EarlierRun == StartTime - 100

earlier_rows(req, status1, status2) ==
    LET rows == request_rows(req, EarlierRun)
    IN  [k \in 1..2 |-> [rows[k] EXCEPT !.status =
                                     IF k = 1 THEN status1 ELSE status2]]

EarlierToken ==
    [present |-> TRUE,
     access_token |-> fernet_encrypt(<<"access", 0>>),
     refresh_token |-> fernet_encrypt(<<"refresh", 0>>),
     access_expiry |-> EarlierRun + 300,
     refresh_expiry |-> EarlierRun + 600,
     session_state |-> <<"session", 0>>]

OneOffInsideWindow ==
    [schedule_type |-> "one-off", desired |-> astimezone_eastern(StartTime + 500),
     court_id |-> "1", day_of_week |-> 0, time |-> 0, occurrences |-> 1]

RecurringToday ==
    [schedule_type |-> "recurring", desired |-> 0, court_id |-> "1",
     day_of_week |-> weekday(astimezone_eastern(StartTime)),
     time |-> (astimezone_eastern(StartTime) % DAY) + 1200, occurrences |-> 2]

\* the databases and configuration files a run of main starts from: a fresh
\* installation with each configuration file, or a restart over the rows
\* and the token of an earlier run
Deployments ==
    {[config |-> c, schedules |-> <<>>, token |-> NoToken] : c \in ConfigFiles}
    \cup
    {[config |-> <<>>, schedules |-> earlier_rows(r, st[1], st[2]),
      token |-> EarlierToken] :
        r \in {OneOffInsideWindow, RecurringToday},
        st \in {<<"pending", "pending">>, <<"success", "cancelled">>}}

(* ------------------------------- Init --------------------------------- *)
Init ==
    /\ now = StartTime
    /\ phase = "down"
    /\ \E d \in Deployments :
          /\ config = d.config
          /\ schedules = d.schedules
          /\ token = d.token
    /\ jobs = {}
    /\ inflight = {}
    /\ cancelling = {}
    /\ exchanges = 0
    /\ requests = 0
    /\ dirty = NoWrites
    /\ threads = {}
    /\ last = NoOperation

(* ------------------------------- main --------------------------------- *)
\* main(): load_configs, init_scheduler, scheduler.start(), set_scheduler
Boot ==
    /\ phase = "down"
    /\ Len(schedules) + Len(config) <= MaxEntries
    /\ LET S == schedules \o config_rows(config, now)
           tok == load_token(token, now)
       IN  /\ schedules' = S
           /\ token' = tok
           /\ jobs' = init_scheduler(jobs, S, tok, now)
    /\ phase' = "up"
    /\ last' = Last("init_scheduler", 0, "none", <<>>, "none", 0)
    /\ UNCHANGED <<dirty, threads, requests, now, config, inflight, cancelling, exchanges>>

(* ------------------------------ the clock ----------------------------- *)
\* instants at which some comparison of the program changes its answer
EventTimes ==
    {j.run_date : j \in jobs}
    \cup UNION {{trigger_instant(schedules[i]),
                 trigger_instant(schedules[i]) - PREP_LEAD,
                 desired_instant(schedules[i])} : i \in Ids}
    \cup (IF token.present
          THEN {token.access_expiry - GUARD_BAND, token.refresh_expiry,
                token.refresh_expiry + 1}
          ELSE {})

\* time passes; a running scheduler fires every job at its run date, so the
\* clock does not pass an armed job, and cancel_schedule goes from its commit
\* to its remove_job without the clock moving
Advance(limit) ==
    /\ \E t \in EventTimes \cup {limit} :
          /\ t > now
          /\ t <= limit
          /\ phase = "up" => \A j \in jobs : t <= j.run_date
          /\ cancelling = {}
          /\ now' = t
    /\ last' = NoOperation
    /\ UNCHANGED <<dirty, threads, requests, phase, config, schedules, token, jobs, inflight,
                   cancelling, exchanges>>

Tick == Advance(MaxTime)

(* ------------------------ token refresh protocol ---------------------- *)
\* what the OAuth token endpoint (or the browser login) answers: a failure
\* (transport error, non-2xx), or new secrets with their lifetimes
AccessLifetimes == {300}
RefreshLifetimes == {20, 600}

ExchangeOutcomes ==
    {[ok |-> FALSE, expires_in |-> 0, refresh_expires_in |-> 0]}
    \cup {[ok |-> TRUE, expires_in |-> a, refresh_expires_in |-> r] :
              a \in AccessLifetimes, r \in RefreshLifetimes}

\* the secrets the n-th exchange of a behaviour hands out
issued_access(n) == <<"access", n>>
issued_refresh(n) == <<"refresh", n>>

\* an update that leaves the access expiry at the instant of the call
updated_token_access_expiring_now(t, data, n) ==
    [present |-> TRUE,
     access_token |-> fernet_encrypt(issued_access(n)),
     refresh_token |-> fernet_encrypt(issued_refresh(n)),
     access_expiry |-> t,
     refresh_expiry |-> t + data.refresh_expires_in,
     session_state |-> <<"session", n>>]

\* the "Update token" block: every field taken from one response
updated_token(t, data, n) ==
    [present |-> TRUE,
     access_token |-> fernet_encrypt(issued_access(n)),
     refresh_token |-> fernet_encrypt(issued_refresh(n)),
     access_expiry |-> t + data.expires_in,
     refresh_expiry |-> t + data.refresh_expires_in,
     session_state |-> <<"session", n>>]

\* validity judged on the refresh secret's expiry instead of the access one
access_still_valid_by_refresh_expiry(tok, t) ==
    tok.refresh_expiry > t + GUARD_BAND

\* the first guard of get_fresh_access_token
access_still_valid(tok, t) == tok.access_expiry > t + GUARD_BAND

\* the expiry check left out
refresh_expired_never(tok, t) == FALSE

\* the second guard of get_fresh_access_token
refresh_expired(tok, t) == tok.refresh_expiry < t

\* the answer of an exchange that is not made, or that fails
NoAnswer == [ok |-> FALSE, expires_in |-> 0, refresh_expires_in |-> 0]

\* the endpoint answers; once MaxExchanges token sets have been issued in a
\* behaviour it only fails
LoginAnswers(n) == IF n < MaxExchanges THEN ExchangeOutcomes ELSE {NoAnswer}

\* an exchange is made only when the access token is no longer valid and the
\* refresh secret has not expired: only then is an answer drawn
Answers(tok, t, n) ==
    IF tok.present /\ ~access_still_valid(tok, t) /\ ~refresh_expired(tok, t)
    THEN LoginAnswers(n)
    ELSE {NoAnswer}

\* get_fresh_access_token(db, token_id, fernet, scheduler) at time t, the
\* endpoint answering `data`; J is the job table, has_scheduler tells whether
\* a scheduler was passed. Result: the path taken, whether it raised, the
\* token row and job table it leaves, the value returned and the number of
\* exchanges performed.
get_fresh_access_token(tok, J, t, data, n, has_scheduler) ==
    IF access_still_valid(tok, t)
    THEN [path |-> "valid", raised |-> FALSE, token |-> tok, jobs |-> J,
          ret |-> fernet_decrypt(tok.access_token), exch |-> 0, issued |-> 0]
    ELSE IF refresh_expired(tok, t)
    THEN [path |-> "expired", raised |-> TRUE, token |-> tok, jobs |-> J,
          ret |-> "Refresh token expired", exch |-> 0, issued |-> 0]
    ELSE IF ~data.ok
    THEN [path |-> "failed", raised |-> TRUE, token |-> tok, jobs |-> J,
          ret |-> "request failed", exch |-> 1, issued |-> 0]
    ELSE LET new == updated_token(t, data, n + 1)
         IN  [path |-> "refreshed", raised |-> FALSE, token |-> new,
              jobs |-> IF has_scheduler
                       THEN schedule_next_token_refresh(J, new, t)
                       ELSE J,
              ret |-> issued_access(n + 1), exch |-> 1,
              issued |-> 1]

\* automatic refresh whose retry job is added beside an armed one
auto_refresh_token_retry_added(tok, J, t, data, n) ==
    LET g == get_fresh_access_token(tok, J, t, data, n, FALSE)
    IN  IF g.raised
        THEN [g EXCEPT !.jobs = add_job(J, Job(RetryId, t + RETRY_BACKOFF,
                                              "auto_refresh_token", "date"),
                                        FALSE)]
        ELSE IF JobsWithId(J, ExpiryProtectionId) # {}
        THEN [g EXCEPT !.jobs = schedule_next_token_refresh(J, g.token, t)]
        ELSE g

\* auto_refresh_token(scheduler, db, token_id, fernet): the refresh without
\* a scheduler, then the cadence re-armed if the expiry-protection job is in
\* the table; any exception arms the retry job instead
auto_refresh_token(tok, J, t, data, n) ==
    LET g == get_fresh_access_token(tok, J, t, data, n, FALSE)
    IN  IF g.raised
        THEN [g EXCEPT !.jobs = add_job(J, Job(RetryId, t + RETRY_BACKOFF,
                                              "auto_refresh_token", "date"),
                                        TRUE)]
        ELSE IF JobsWithId(J, ExpiryProtectionId) # {}
        THEN [g EXCEPT !.jobs = schedule_next_token_refresh(J, g.token, t)]
        ELSE g

\* the job table once the scheduler thread has dispatched due job j: a date
\* job is removed, an interval job gets its next run date
dispatched(J, j) ==
    IF j.trigger = "interval"
    THEN (J \ {j}) \cup {[j EXCEPT !.run_date = j.run_date + REFRESH_INTERVAL]}
    ELSE J \ {j}

\* a job the running scheduler executes now: its run date has come and is
\* not further back than the misfire grace time
Due(j) ==
    /\ phase = "up"
    /\ j \in jobs
    /\ j.run_date <= now
    /\ now - j.run_date <= MISFIRE_GRACE_TIME

\* a job whose run date lies further back than the misfire grace time is
\* reported as missed and is not executed
Misfire ==
    \E j \in jobs :
        /\ phase = "up"
        /\ now - j.run_date > MISFIRE_GRACE_TIME
        /\ jobs' = dispatched(jobs, j)
        /\ last' = Last("missed", j.id, "none", <<>>, "none", 0)
        /\ UNCHANGED <<dirty, threads, requests, now, phase, config, schedules, token,
                       inflight, cancelling, exchanges>>

\* a token-refresh job (interval, expiry protection or retry) fires, the
\* endpoint answering one of `answers`
FireRefreshFrom(answers) ==
    \E j \in jobs, data \in answers :
        /\ Due(j)
        /\ j.func = "auto_refresh_token"
        /\ LET r == auto_refresh_token(token, dispatched(jobs, j), now, data,
                                       exchanges)
           IN  /\ token' = r.token
               /\ jobs' = r.jobs
               /\ exchanges' = exchanges + r.issued
               /\ last' = Last("auto_refresh_token", j.id, r.path, <<>>, r.ret, r.exch)
        /\ UNCHANGED <<dirty, threads, requests, now, phase, config, schedules, inflight,
                       cancelling>>

FireRefresh == FireRefreshFrom(Answers(token, now, exchanges))

\* POST /api/token/refresh: 404 without a token row, 400 when the refresh
\* secret has expired, else get_fresh_access_token with the scheduler
ApiRefreshTokenFrom(answers) ==
    \E data \in answers :
        /\ phase = "up"
        /\ requests < MaxRequests
        /\ requests' = requests + 1
        /\ IF ~token.present
           THEN /\ last' = Last("refresh_token", 0, "404", <<>>, "none", 0)
                /\ UNCHANGED <<token, jobs, exchanges>>
           ELSE IF token.refresh_expiry # 0 /\ token.refresh_expiry < now
           THEN /\ last' = Last("refresh_token", 0, "400", <<>>, "none", 0)
                /\ UNCHANGED <<token, jobs, exchanges>>
           ELSE LET r == get_fresh_access_token(token, jobs, now, data,
                                                exchanges, TRUE)
                IN  /\ token' = r.token
                    /\ jobs' = r.jobs
                    /\ exchanges' = exchanges + r.issued
                    /\ last' = Last("refresh_token", 0, r.path, <<>>, r.ret, r.exch)
        /\ UNCHANGED <<dirty, threads, now, phase, config, schedules, inflight,
                       cancelling>>

ApiRefreshToken == ApiRefreshTokenFrom(Answers(token, now, exchanges))

\* get_token_via_playwright(db, fernet, schedule_id): a browser login whose
\* captured token response replaces (or creates) the token row; no scheduler
\* is passed to it
get_token_via_playwright(tok, t, data, n) ==
    IF data.ok
    THEN [path |-> "refreshed", raised |-> FALSE,
          token |-> updated_token(t, data, n + 1), exch |-> 1,
          issued |-> 1]
    ELSE [path |-> "failed", raised |-> TRUE, token |-> tok, exch |-> 1,
          issued |-> 0]

\* a playwright_auth_<id> job fires: playwright_login_wrapper
FirePlaywright ==
    \E j \in jobs, data \in LoginAnswers(exchanges) :
        /\ Due(j)
        /\ j.func = "playwright_login_wrapper"
        /\ jobs' = dispatched(jobs, j)
        /\ LET r == get_token_via_playwright(token, now, data, exchanges)
           IN  /\ token' = r.token
               /\ exchanges' = exchanges + r.issued
               /\ last' = Last("playwright_login", j.id[2], r.path, <<>>,
                               "none", r.exch)
        /\ UNCHANGED <<dirty, threads, requests, now, phase, config, schedules, inflight,
                       cancelling>>

(* --------------------------- booking executor ------------------------- *)
\* get_amenity_id(court_id)
get_amenity_id(court_id) ==
    IF court_id = "1" THEN AMENITY_COURT_1
    ELSE IF court_id = "2" THEN AMENITY_COURT_2
    ELSE AMENITY_COURT_1

\* the amenity the except branch of book_slot retries with
fallback_amenity_id(court_id) ==
    IF court_id = "1" THEN AMENITY_COURT_2 ELSE AMENITY_COURT_1

\* what one POST to the booking endpoint can do: be refused (non-2xx,
\* transport error), be accepted with a JSON body, or be accepted with a
\* body response.json() cannot parse
CallOutcomes == {"accepted", "accepted_unreadable", "refused"}

\* a pass that posts the booking although get_fresh_access_token raised
book_attempt_posting_without_token(s, status, tok, t, prefilled, data, call, n) ==
    IF ~tok.present
    THEN [raised |-> TRUE, token |-> tok, exch |-> 0, issued |-> 0,
          calls |-> <<>>, status |-> status]
    ELSE LET g == get_fresh_access_token(tok, {}, t, data, n, FALSE)
             amenity_id ==
                 IF prefilled = 0
                 THEN get_amenity_id(IF s.court_id = NoCourt THEN "1"
                                     ELSE s.court_id)
                 ELSE prefilled
         IN  [raised |-> g.raised \/ call # "accepted", token |-> g.token,
              exch |-> g.exch, issued |-> g.issued,
              calls |-> <<[amenity_id |-> amenity_id, outcome |-> call,
                           attempt |-> IF prefilled = 0 THEN "initial"
                                       ELSE "retry"]>>,
              status |-> IF call = "refused" THEN status ELSE "success"]

\* one pass through the try block of book_slot; prefilled = 0 stands for
\* prefilled_amenity_id = None. status is schedule.status as the block
\* leaves it in the session.
book_attempt(s, status, tok, t, prefilled, data, call, n) ==
    IF ~tok.present
    THEN [raised |-> TRUE, token |-> tok, exch |-> 0, issued |-> 0,
          calls |-> <<>>, status |-> status]
    ELSE LET g == get_fresh_access_token(tok, {}, t, data, n, FALSE)
             amenity_id ==
                 IF prefilled = 0
                 THEN get_amenity_id(IF s.court_id = NoCourt THEN "1"
                                     ELSE s.court_id)
                 ELSE prefilled
         IN  IF g.raised
             THEN [raised |-> TRUE, token |-> g.token, exch |-> g.exch,
                   issued |-> g.issued, calls |-> <<>>, status |-> status]
             ELSE [raised |-> call # "accepted", token |-> g.token,
                   exch |-> g.exch, issued |-> g.issued,
                   calls |-> <<[amenity_id |-> amenity_id, outcome |-> call,
                                attempt |-> IF prefilled = 0 THEN "initial"
                                            ELSE "retry"]>>,
                   status |-> IF call = "refused" THEN status ELSE "success"]

\* book_slot whose retry, when it raises too, goes back to the first amenity
book_slot_alternating(s, tok, t, data1, call1, data2, call2, n) ==
    LET a1 == book_attempt(s, s.status, tok, t, 0, data1, call1, n)
    IN  IF ~a1.raised
        THEN [status |-> a1.status, calls |-> a1.calls, token |-> a1.token,
              exch |-> a1.exch, issued |-> a1.issued]
        ELSE LET a2 == book_attempt(s, a1.status, a1.token, t,
                                    fallback_amenity_id(s.court_id),
                                    data2, call2, n + a1.issued)
                 a3 == book_attempt(s, a2.status, a2.token, t, 0, data2,
                                    call2, n + a1.issued + a2.issued)
             IN  IF ~a2.raised
                 THEN [status |-> a2.status, calls |-> a1.calls \o a2.calls,
                       token |-> a2.token, exch |-> a1.exch + a2.exch,
                       issued |-> a1.issued + a2.issued]
                 ELSE [status |-> IF a3.raised THEN "failed" ELSE a3.status,
                       calls |-> a1.calls \o a2.calls \o a3.calls,
                       token |-> a3.token,
                       exch |-> a1.exch + a2.exch + a3.exch,
                       issued |-> a1.issued + a2.issued + a3.issued]

\* book_slot that puts a row back to pending when both attempts raised
book_slot_requeueing(s, tok, t, data1, call1, data2, call2, n) ==
    LET a1 == book_attempt(s, s.status, tok, t, 0, data1, call1, n)
    IN  IF ~a1.raised
        THEN [status |-> a1.status, calls |-> a1.calls, token |-> a1.token,
              exch |-> a1.exch, issued |-> a1.issued]
        ELSE LET a2 == book_attempt(s, a1.status, a1.token, t,
                                    fallback_amenity_id(s.court_id),
                                    data2, call2, n + a1.issued)
             IN  [status |-> IF a2.raised THEN "pending" ELSE a2.status,
                  calls |-> a1.calls \o a2.calls,
                  token |-> a2.token,
                  exch |-> a1.exch + a2.exch,
                  issued |-> a1.issued + a2.issued]

\* book_slot(db, schedule_id, fernet) from the token lookup to the commit:
\* the first attempt and, when it raised, the single retry on the other
\* amenity; the status it commits, the calls it made, the token it leaves
book_slot(s, tok, t, data1, call1, data2, call2, n) ==
    LET a1 == book_attempt(s, s.status, tok, t, 0, data1, call1, n)
    IN  IF ~a1.raised
        THEN [status |-> a1.status, calls |-> a1.calls, token |-> a1.token,
              exch |-> a1.exch, issued |-> a1.issued]
        ELSE LET a2 == book_attempt(s, a1.status, a1.token, t,
                                    fallback_amenity_id(s.court_id),
                                    data2, call2, n + a1.issued)
             IN  [status |-> IF a2.raised THEN "failed" ELSE a2.status,
                  calls |-> a1.calls \o a2.calls,
                  token |-> a2.token,
                  exch |-> a1.exch + a2.exch,
                  issued |-> a1.issued + a2.issued]

\* a booking_<id> job fires: the scheduler thread hands it to the pool and
\* removes it; book_slot looks the row up (it exists: rows are never deleted)
FireBooking ==
    \E j \in jobs :
        /\ Due(j)
        /\ j.func \in {"book_slot", "book_slot_wrapper"}
        /\ jobs' = dispatched(jobs, j)
        /\ inflight' = inflight \cup {j.id[2]}
        /\ last' = Last("fire_booking", j.id[2], "none", <<>>, "none", 0)
        /\ UNCHANGED <<dirty, threads, requests, now, phase, config, schedules, token,
                       cancelling, exchanges>>

\* a booking call is made only when the token lookup and
\* get_fresh_access_token did not raise: only then is its outcome drawn
Calls(tok, t, data) ==
    IF tok.present /\ ~get_fresh_access_token(tok, {}, t, data, 0, FALSE).raised
    THEN CallOutcomes
    ELSE {"refused"}

\* the rest of book_slot, up to db.commit() in its finally block
BookSlotFinish ==
    \E i \in inflight :
      \E data1 \in Answers(token, now, exchanges) :
        \E call1 \in Calls(token, now, data1) :
          LET a1 == book_attempt(schedules[i], schedules[i].status, token, now,
                                 0, data1, call1, exchanges)
          IN  \E data2 \in (IF a1.raised THEN Answers(a1.token, now,
                                                       exchanges + a1.issued)
                            ELSE {NoAnswer}) :
                \E call2 \in (IF a1.raised THEN Calls(a1.token, now, data2)
                              ELSE {"refused"}) :
                  LET r == book_slot(schedules[i], token, now, data1, call1,
                                     data2, call2, exchanges)
                  IN  /\ schedules' = [schedules EXCEPT ![i].status = r.status]
                      /\ token' = r.token
                      /\ exchanges' = exchanges + r.issued
                      /\ inflight' = inflight \ {i}
                      /\ last' = Last("book_slot", i, schedules[i].status,
                                      r.calls, r.status, r.exch)
                      /\ UNCHANGED <<dirty, threads, requests, now, phase, config, jobs,
                                     cancelling>>

(* ------------------------- schedule creation API ---------------------- *)
\* POST /api/schedules: create_schedule and create_schedules_from_request
CreateScheduleFrom(reqs, max_entries) ==
    \E req \in reqs :
        /\ phase = "up"
        /\ requests < MaxRequests
        /\ requests' = requests + 1
        /\ LET rows == request_rows(req, now)
               S == schedules \o rows
           IN  /\ Len(S) <= max_entries
               /\ schedules' = S
               /\ jobs' = add_schedules(jobs, S, (Len(schedules) + 1)..Len(S),
                                        now)
        /\ last' = Last("create_schedule", Len(schedules) + 1, "created", <<>>,
                        "none", 0)
        /\ UNCHANGED <<dirty, threads, now, phase, config, token, inflight, cancelling,
                       exchanges>>

CreateScheduleUpTo(max_entries) == CreateScheduleFrom(Requests, max_entries)

CreateSchedule == CreateScheduleUpTo(MaxEntries)

(* ----------------------------- cancellation --------------------------- *)
\* cancellation that does not look at the status of the row
CancelScheduleAnyStatus ==
    \E i \in 1..(Len(schedules) + 1) :
        /\ phase = "up"
        /\ requests < MaxRequests
        /\ requests' = requests + 1
        /\ i \notin cancelling
        /\ IF i \notin Ids
           THEN /\ last' = Last("cancel_schedule", i, "404", <<>>, "none", 0)
                /\ UNCHANGED <<schedules, cancelling>>
           ELSE /\ schedules' = [schedules EXCEPT ![i].status = "cancelled"]
                /\ cancelling' = cancelling \cup {i}
                /\ last' = Last("cancel_schedule", i, "committed", <<>>, "none", 0)
        /\ UNCHANGED <<dirty, threads, now, phase, config, token, jobs, inflight,
                       exchanges>>

\* DELETE /api/schedules/{id}, up to db.commit(): 404 for an unknown id, 400
\* for a row that is not pending, else the row is committed as cancelled
CancelSchedule ==
    \E i \in 1..(Len(schedules) + 1) :
        /\ phase = "up"
        /\ requests < MaxRequests
        /\ requests' = requests + 1
        /\ i \notin cancelling
        /\ IF i \notin Ids
           THEN /\ last' = Last("cancel_schedule", i, "404", <<>>, "none", 0)
                /\ UNCHANGED <<schedules, cancelling>>
           ELSE IF schedules[i].status # "pending"
           THEN /\ last' = Last("cancel_schedule", i, "400", <<>>, "none", 0)
                /\ UNCHANGED <<schedules, cancelling>>
           ELSE /\ schedules' = [schedules EXCEPT ![i].status = "cancelled"]
                /\ cancelling' = cancelling \cup {i}
                /\ last' = Last("cancel_schedule", i, "committed", <<>>, "none", 0)
        /\ UNCHANGED <<dirty, threads, now, phase, config, token, jobs, inflight,
                       exchanges>>

\* the jobs cancel_schedule removes for row i
cancel_remove_jobs(J, i) == remove_job(J, BookingId(i))

\* the rest of cancel_schedule: the job is removed from the scheduler
CancelRemoveJob ==
    \E i \in cancelling :
        /\ jobs' = cancel_remove_jobs(jobs, i)
        /\ cancelling' = cancelling \ {i}
        /\ last' = Last("cancel_schedule", i, "removed", <<>>, "none", 0)
        /\ UNCHANGED <<dirty, threads, requests, now, phase, config, schedules, token, inflight,
                       exchanges>>

Next ==
    \/ Boot
    \/ Tick
    \/ FireRefresh
    \/ ApiRefreshToken
    \/ FirePlaywright
    \/ Misfire
    \/ FireBooking
    \/ BookSlotFinish
    \/ CreateSchedule
    \/ CancelSchedule
    \/ CancelRemoveJob

Spec == Init /\ [][Next]_vars

(* ---------------------- the refresh cadence alone --------------------- *)
\* a fresh installation without schedules, followed over a longer time: the
\* token row, the refresh jobs and the refresh endpoint
TokenInit ==
    /\ Init
    /\ config = <<>>
    /\ schedules = <<>>
    /\ token = NoToken

TokenTick == Advance(StartTime + TokenHorizon)

TokenNext ==
    \/ Boot
    \/ TokenTick
    \/ FireRefresh
    \/ ApiRefreshToken

TokenSpec == TokenInit /\ [][TokenNext]_vars

(* ---------------------- startup reconciliation ------------------------ *)
Pending(i) == schedules[i].status = "pending"
BookingJobs(i) == JobsWithId(jobs, BookingId(i))
TokenPrepJobs(i) == JobsWithId(jobs, PlaywrightId(i))
JustReconciled == last.op = "init_scheduler"

\* C1: right after init_scheduler ran at `now`, every pending row whose
\* trigger instant is after `now` has exactly one booking job, armed at the
\* trigger instant, and has exactly one login (token preparation) job, armed
\* 4 minutes before the trigger, if that instant is after `now`, and none
\* otherwise.
C1_FutureEntriesArmedOnce ==
    JustReconciled =>
        \A i \in Ids :
            (Pending(i) /\ trigger_instant(schedules[i]) > now) =>
                /\ Cardinality(BookingJobs(i)) = 1
                /\ \A j \in BookingJobs(i) :
                       j.run_date = trigger_instant(schedules[i])
                /\ IF trigger_instant(schedules[i]) - 240 > now
                   THEN /\ Cardinality(TokenPrepJobs(i)) = 1
                        /\ \A j \in TokenPrepJobs(i) :
                               j.run_date = trigger_instant(schedules[i]) - 240
                   ELSE TokenPrepJobs(i) = {}

\* init_scheduler has just run at the very instant 4 minutes before a pending
\* row's trigger: the booking is armed, the login is not
C1_Witness ==
    /\ JustReconciled
    /\ \E i \in Ids :
          /\ Pending(i)
          /\ trigger_instant(schedules[i]) - 240 = now
          /\ BookingJobs(i) # {}
          /\ TokenPrepJobs(i) = {}

Rescuable(i) ==
    /\ Pending(i)
    /\ schedules[i].type = "one-off"
    /\ trigger_instant(schedules[i]) <= now
    /\ now < desired_instant(schedules[i])

\* C2 as stated: right after init_scheduler ran at `now`, every pending
\* one-off row with trigger <= now < desired has a login job armed at `now`
\* and a booking job armed at now + 30 seconds.
C2_RescueGrace30 ==
    JustReconciled =>
        \A i \in Ids :
            Rescuable(i) =>
                /\ \E j \in TokenPrepJobs(i) : j.run_date = now
                /\ \E j \in BookingJobs(i) : j.run_date = now + 30

\* C2 amended: right after init_scheduler ran at `now`, every pending one-off
\* row with trigger <= now < desired has a login job armed at `now` and a
\* booking job armed at now + 60 seconds (one minute).
C2_RescueGraceOneMinute ==
    JustReconciled =>
        \A i \in Ids :
            Rescuable(i) =>
                /\ \E j \in TokenPrepJobs(i) : j.run_date = now
                /\ \E j \in BookingJobs(i) : j.run_date = now + 60

\* init_scheduler has just rescued a past-due one-off row
C2_Witness ==
    /\ JustReconciled
    /\ \E i \in Ids : Rescuable(i) /\ TokenPrepJobs(i) # {} /\ BookingJobs(i) # {}

Unrecoverable(i) ==
    /\ Pending(i)
    /\ trigger_instant(schedules[i]) <= now
    /\ \/ schedules[i].type = "recurring"
       \/ schedules[i].type = "one-off" /\ desired_instant(schedules[i]) <= now

\* row i has nothing armed and no booking under way
Idle(i) == BookingJobs(i) = {} /\ TokenPrepJobs(i) = {} /\ i \notin inflight

\* C3: init_scheduler arms neither a booking nor a login job for a pending
\* row whose trigger is not after `now` and that is recurring, or one-off
\* with its desired instant not after `now`, and the row's status is the one
\* it had (pending); a row with nothing armed and no booking under way stays
\* so in every later step, so the occurrence is never attempted.
C3_UnrecoverableLeftAlone ==
    /\ [][(phase = "down" /\ phase' = "up") =>
            \A i \in Ids :
                Unrecoverable(i) =>
                    /\ schedules'[i] = schedules[i]
                    /\ JobsWithId(jobs', BookingId(i)) = {}
                    /\ JobsWithId(jobs', PlaywrightId(i)) = {}]_vars
    /\ [][\A i \in Ids : (phase = "up" /\ Idle(i)) => Idle(i)']_vars

\* init_scheduler has just skipped a one-off row whose desired instant has
\* passed
C3_Witness ==
    /\ JustReconciled
    /\ \E i \in Ids :
          /\ Unrecoverable(i)
          /\ schedules[i].type = "one-off"
          /\ Idle(i)

(* ------------------------------ cancellation --------------------------- *)
\* C4: once cancel_schedule has succeeded on a pending row (committed the
\* status and returned), no booking job and no login job of that row is in
\* the job table, and from then on none is armed or under way for it.
C4_CancelRemovesBothJobs ==
    (last.op = "cancel_schedule" /\ last.path = "removed") =>
        /\ BookingJobs(last.id) = {}
        /\ TokenPrepJobs(last.id) = {}

(* --------------------------- booking executor ------------------------- *)
JustBooked == last.op = "book_slot"
Accepted(call) == call.outcome \in {"accepted", "accepted_unreadable"}

\* C5: when the first booking call of a book_slot firing is refused, the
\* firing makes exactly one more booking call, and that call is for the other
\* court of the pair (amenity 8, amenity 10), whether the row's court is "1",
\* "2" or absent.
C5_FallbackTargetsOtherCourt ==
    (/\ JustBooked
     /\ Len(last.calls) >= 1
     /\ last.calls[1].attempt = "initial"
     /\ last.calls[1].outcome = "refused") =>
        /\ Len(last.calls) = 2
        /\ {last.calls[1].amenity_id, last.calls[2].amenity_id} = {8, 10}

\* C6: after a book_slot firing the committed status of the row is success
\* when the first call was accepted, or the first was not and the second was
\* accepted, and failed otherwise; it is never pending.
C6_StatusReflectsCalls ==
    JustBooked =>
        LET calls == last.calls
            status == schedules[last.id].status
            primary == \E k \in 1..Len(calls) :
                           calls[k].attempt = "initial" /\ Accepted(calls[k])
            secondary == \E k \in 1..Len(calls) :
                             calls[k].attempt = "retry" /\ Accepted(calls[k])
        IN  /\ status \in {"success", "failed"}
            /\ status = "success" <=> (primary \/ (~primary /\ secondary))

\* C7: in every step, a row whose status is success, failed or cancelled
\* keeps that status.
C7_TerminalStatusIsFinal ==
    [][\A i \in Ids :
          schedules[i].status # "pending" =>
              schedules'[i].status = schedules[i].status]_vars

(* ------------------------ token refresh protocol ---------------------- *)
\* the step is a call of get_fresh_access_token by the refresh endpoint
EndpointCall == last'.op = "refresh_token" /\ last'.path \notin {"404", "400"}
\* the step is a call of get_fresh_access_token by a refresh job
RefreshJobCall == last'.op = "auto_refresh_token"
\* the step runs book_slot on a stored token: get_fresh_access_token is
\* called by its first attempt, and again by its retry when that one raised
BookingCall == last'.op = "book_slot" /\ token.present

Valid == token.present /\ token.access_expiry > now + 2

\* C8: when get_fresh_access_token is called with access_expiry > now + 2,
\* it returns the stored access secret, calls the token endpoint not at all,
\* leaves the token row as it is and, called by the refresh endpoint (its
\* only caller that hands it the scheduler and adds or removes no job of
\* its own), leaves the job table as it is.
C8_ValidTokenUntouched ==
    [][(Valid /\ (EndpointCall \/ RefreshJobCall \/ BookingCall)) =>
          /\ token' = token
          /\ exchanges' = exchanges
          /\ last'.exch = 0
          /\ (EndpointCall \/ RefreshJobCall) =>
                 /\ last'.path = "valid"
                 /\ last'.ret = fernet_decrypt(token.access_token)
          /\ EndpointCall => jobs' = jobs]_vars

\* the refresh endpoint has just been served from a token that was valid
C8_Witness ==
    /\ last.op = "refresh_token"
    /\ last.path = "valid"
    /\ Valid
    /\ last.ret = fernet_decrypt(token.access_token)
    /\ jobs # {}

\* C9 as stated: when get_fresh_access_token is called with the token not
\* valid and refresh_expiry <= now, the boundary refresh_expiry = now
\* included, it raises "Refresh token expired", calls the token endpoint
\* not at all and leaves the token row as it is.
C9_ExpiredAtOrBeforeNow ==
    [][(/\ token.present
        /\ ~Valid
        /\ token.refresh_expiry <= now
        /\ (EndpointCall \/ RefreshJobCall \/ BookingCall)) =>
          /\ token' = token
          /\ last'.exch = 0
          /\ (EndpointCall \/ RefreshJobCall) => last'.path = "expired"]_vars

\* C9 amended: when get_fresh_access_token is called with the token not
\* valid and refresh_expiry < now (strictly), it raises "Refresh token
\* expired", calls the token endpoint not at all and leaves the token row as
\* it is; at refresh_expiry = now it attempts the exchange.
C9_ExpiredStrictlyBeforeNow ==
    [][(/\ token.present
        /\ ~Valid
        /\ (EndpointCall \/ RefreshJobCall \/ BookingCall)) =>
          /\ token.refresh_expiry < now =>
                /\ token' = token
                /\ last'.exch = 0
                /\ (EndpointCall \/ RefreshJobCall) => last'.path = "expired"
          /\ token.refresh_expiry = now => last'.exch >= 1]_vars

\* a refresh job has just found the refresh secret expired
C9_Witness ==
    /\ last.op = "auto_refresh_token"
    /\ last.path = "expired"
    /\ token.present
    /\ ~Valid
    /\ token.refresh_expiry < now

\* C10: whenever a call of get_fresh_access_token has refreshed the token,
\* whether a refresh job, a booking or the refresh endpoint made it, a
\* refresh job is armed at the new refresh_expiry - 30 seconds afterwards
\* (stated for the exchanges whose new refresh_expiry - 30 is still ahead).
C10_RefreshRearmsCadence ==
    [][(/\ \/ (EndpointCall \/ RefreshJobCall) /\ last'.path = "refreshed"
           \/ BookingCall /\ exchanges' > exchanges
        /\ token'.refresh_expiry - 30 > now) =>
          \E j \in jobs' :
              /\ j.func = "auto_refresh_token"
              /\ j.run_date = token'.refresh_expiry - 30]_vars

(* --------------------------- refresh cadence -------------------------- *)
RefreshJobs == {j \in jobs : j.func = "auto_refresh_token"}
RefreshJobIds == {IntervalId, ExpiryProtectionId, RetryId, LegacyRefreshId}

\* the state is the one a call of schedule_next_token_refresh has just left
JustRearmed ==
    \/ last.op = "refresh_token" /\ last.path = "refreshed"
    \/ JustReconciled /\ token.present /\ token.refresh_expiry > now

\* C12 as stated: in every state at most one refresh job is armed, and each
\* re-arming leaves it at refresh_expiry - 30 seconds.
C12_SingleRefreshTimer ==
    /\ Cardinality(RefreshJobs) <= 1
    /\ JustRearmed => \A j \in RefreshJobs : j.run_date = token.refresh_expiry - 30

\* C12 amended: in every reachable state at most one refresh job of each
\* kind (interval, expiry protection, retry) is armed; each re-arming of the
\* cadence (by startup, by the refresh endpoint, by a successful refresh job
\* that finds an expiry-protection job armed) replaces the interval job by one
\* 20 minutes ahead and, when refresh_expiry - 30 seconds is still ahead,
\* replaces the expiry-protection job by one at that instant.
C12_OneRefreshTimerPerKind ==
    [][/\ \A id \in RefreshJobIds : Cardinality(JobsWithId(jobs', id)) <= 1
       /\ \A j \in RefreshJobs' : j.id \in RefreshJobIds
       /\ (\/ JustRearmed'
           \/ /\ RefreshJobCall
              /\ last'.path = "refreshed"
              /\ \E j \in JobsWithId(jobs, ExpiryProtectionId) : j.id # last'.id)
          =>
          /\ \E j \in JobsWithId(jobs', IntervalId) : j.run_date = now + 1200
          /\ token'.refresh_expiry - 30 > now =>
                 \E j \in JobsWithId(jobs', ExpiryProtectionId) :
                     j.run_date = token'.refresh_expiry - 30]_vars

\* the refresh endpoint has just re-armed a cadence that was armed already
C12_Witness ==
    /\ last.op = "refresh_token"
    /\ last.path = "refreshed"
    /\ token.refresh_expiry - 30 > now
    /\ JobsWithId(jobs, IntervalId) # {}
    /\ JobsWithId(jobs, ExpiryProtectionId) # {}

\* C13: whenever a firing of auto_refresh_token fails (the refresh secret has
\* expired, the exchange fails), the firing ends normally with exactly one
\* retry job armed, 5 minutes after the failure, also when a retry job was
\* armed already.
C13_FailureArmsOneRetry ==
    [][(RefreshJobCall /\ last'.path \in {"failed", "expired"}) =>
          /\ phase' = "up"
          /\ Cardinality(JobsWithId(jobs', RetryId)) = 1
          /\ \A j \in JobsWithId(jobs', RetryId) :
                 j.run_date = now + 300 /\ j.func = "auto_refresh_token"]_vars

\* a refresh job has just failed while the retry job of an earlier failure
\* was still armed: one retry job is armed, 5 minutes ahead
C13_Witness ==
    /\ last.op = "auto_refresh_token"
    /\ last.path = "failed"
    /\ last.id # RetryId
    /\ \E j \in RefreshJobs : j.id = RetryId /\ j.run_date = now + 300
    /\ \E j \in RefreshJobs : j.id = IntervalId /\ j.run_date = now + 1200

Inserting == last'.op = "create_schedule"
NewIds == (Len(schedules) + 1)..Len(schedules')

\* key (kind of action and row) and fire instant of the jobs of row i in J
Armed(J, i) ==
    {<<j.id, j.run_date>> :
        j \in {k \in J : k.id \in {BookingId(i), PlaywrightId(i)}}}

\* C17: for each row a creation request adds at time now,
\* add_schedule_to_scheduler arms exactly the jobs (same keys, same kinds,
\* same fire instants) that the loop body of init_scheduler arms for that
\* row at the same now, and none for an unrecoverable row.
C17_InsertionClassifiesLikeStartup ==
    [][Inserting =>
          \A i \in NewIds :
              Armed(jobs', i) = Armed(reconcile_entry(schedules', i, now), i)]_vars

\* insertion into a table that holds the rows of the configuration file or
\* of an earlier run
InsertNext ==
    \/ Boot
    \/ Tick
    \/ CreateScheduleUpTo(MaxInsertEntries)

\* the deployments, and a restart over rows of which one was booked and the
\* other is still pending
InsertDeployments ==
    Deployments
    \cup {[config |-> <<>>, schedules |-> earlier_rows(r, "success", "pending"),
           token |-> EarlierToken] : r \in {OneOffInsideWindow, RecurringToday}}

InsertInit ==
    /\ now = StartTime
    /\ phase = "down"
    /\ \E d \in InsertDeployments :
          /\ config = d.config
          /\ schedules = d.schedules
          /\ token = d.token
    /\ jobs = {}
    /\ inflight = {}
    /\ cancelling = {}
    /\ exchanges = 0
    /\ requests = 0
    /\ dirty = NoWrites
    /\ threads = {}
    /\ last = NoOperation

InsertSpec == InsertInit /\ [][InsertNext]_vars

\* C18: a creation request leaves every job keyed to another row and every
\* refresh job as it was (the jobs it adds are keyed to the rows it adds),
\* and leaves every row that existed before as it was, its status included.
C18_InsertionFrame ==
    [][Inserting =>
          /\ jobs \subseteq jobs'
          /\ \A j \in jobs' \ jobs :
                 \E i \in NewIds : j.id \in {BookingId(i), PlaywrightId(i)}
          /\ Len(schedules') >= Len(schedules)
          /\ \A i \in 1..Len(schedules) : schedules'[i] = schedules[i]]_vars

\* rows were just inserted beside an earlier row that is not pending, the
\* armed jobs of another earlier row and the refresh jobs
C18_Witness ==
    /\ last.op = "create_schedule"
    /\ last.id > 1
    /\ \E i \in 1..(last.id - 1) : schedules[i].status # "pending"
    /\ \E i \in 1..(last.id - 1) : \E j \in jobs : j.id = BookingId(i)
    /\ \E j \in jobs : j.id = BookingId(last.id)
    /\ RefreshJobs # {}

(* ----------------------------- cancellation ---------------------------- *)
\* the step is cancel_schedule answering, or committing, for row last'.id
Cancelling == last'.op = "cancel_schedule" /\ last'.path # "removed"

\* C19: cancel_schedule for an id that is not in the table answers 404, for
\* a row whose status is not pending it answers 400, and in both cases no
\* status changes and no job is removed; for a pending row it commits the
\* status cancelled, whether or not a booking job is armed for the row, and
\* changes no other row.
C19_CancelRejectsUnknownAndTerminal ==
    [][Cancelling =>
          LET i == last'.id
          IN  /\ i \notin Ids =>
                    last'.path = "404" /\ schedules' = schedules /\ jobs' = jobs
              /\ (i \in Ids /\ schedules[i].status # "pending") =>
                    last'.path = "400" /\ schedules' = schedules /\ jobs' = jobs
              /\ (i \in Ids /\ schedules[i].status = "pending") =>
                    /\ last'.path = "committed"
                    /\ schedules' = [schedules EXCEPT ![i].status = "cancelled"]
                    /\ jobs' = jobs]_vars

\* a pending row whose booking job is no longer armed was just cancelled
C19_Witness ==
    /\ last.op = "cancel_schedule"
    /\ last.path = "committed"
    /\ schedules[last.id].status = "cancelled"
    /\ JobsWithId(jobs, BookingId(last.id)) = {}

(* ---------------------------- reconciliation --------------------------- *)
\* init_scheduler applied again to the running scheduler: right after a run
\* of it (nothing has changed in between), or after the clock has moved
Reconcile ==
    /\ phase = "up"
    /\ LET run == IF last.op = "init_scheduler" THEN last.id + 1 ELSE 0
       IN  /\ run <= MaxReconcileRuns
           /\ last' = Last("init_scheduler", run, "none", <<>>, "none", 0)
    /\ jobs' = init_scheduler(jobs, schedules, token, now)
    /\ UNCHANGED <<dirty, threads, requests, now, phase, config, schedules, token, inflight,
                   cancelling, exchanges>>

ReconcileNext ==
    \/ Boot
    \/ Tick
    \/ Reconcile

ReconcileSpec == Init /\ [][ReconcileNext]_vars

\* the step runs init_scheduler; it does so right after another run of it
Reconciling == last'.op = "init_scheduler"
ReconcilingAgain == Reconciling /\ last.op = "init_scheduler"

\* C20: a run of init_scheduler right after another one, with the rows, the
\* token and the clock unchanged, leaves the job table of the first run as
\* it is; every run leaves at most one job under each key, and leaves no job
\* but those it arms itself (the jobs of the pending rows it classifies and
\* the refresh jobs), whatever was armed before.
C20_ReconciliationIdempotent ==
    [][Reconciling =>
          /\ ReconcilingAgain => jobs' = jobs
          /\ \A j \in jobs' : Cardinality(JobsWithId(jobs', j.id)) = 1
          /\ \A j \in jobs' :
                 \/ \E i \in 1..Len(schedules') :
                        /\ schedules'[i].status = "pending"
                        /\ j \in reconcile_entry(schedules', i, now)
                 \/ /\ j.func = "auto_refresh_token"
                    /\ token'.present
                    /\ token'.refresh_expiry > now
                    /\ \/ j.id = IntervalId /\ j.run_date = now + 1200
                       \/ /\ j.id = ExpiryProtectionId
                          /\ j.run_date = token'.refresh_expiry - 30]_vars

\* init_scheduler has just run a second time in succession, on a scheduler
\* whose first run had replaced jobs armed at an earlier instant
C20_Witness ==
    /\ last.op = "init_scheduler"
    /\ last.id = 1
    /\ now > StartTime
    /\ \E j \in jobs : j.func = "book_slot"
    /\ RefreshJobs # {}

(* ------------------- the refresh, statement by statement ---------------- *)
\* session.commit(): the attributes assigned in the session are written to
\* the row
flush(tok, d) ==
    [present |-> tok.present,
     access_token |-> IF "access_token" \in DOMAIN d THEN d["access_token"]
                      ELSE tok.access_token,
     refresh_token |-> IF "refresh_token" \in DOMAIN d THEN d["refresh_token"]
                       ELSE tok.refresh_token,
     access_expiry |-> IF "access_expiry" \in DOMAIN d THEN d["access_expiry"]
                       ELSE tok.access_expiry,
     refresh_expiry |-> IF "refresh_expiry" \in DOMAIN d
                        THEN d["refresh_expiry"] ELSE tok.refresh_expiry,
     session_state |-> IF "session_state" \in DOMAIN d THEN d["session_state"]
                       ELSE tok.session_state]

\* token.<f> = v in a session whose uncommitted assignments are d
assign(d, f, v) ==
    [g \in DOMAIN d \cup {f} |-> IF g = f THEN v ELSE d[g]]

\* the assignments of the session thread th works in: the session of main,
\* which init_scheduler hands to book_slot and to auto_refresh_token, or the
\* session a wrapper or a request opened for itself
session_writes(th) == IF th.shared THEN dirty ELSE th.own

\* the token object as thread th reads it: the row, with the assignments of
\* its session
session_token(th) ==
    IF token.present THEN flush(token, session_writes(th)) ELSE token

\* a thread entering get_fresh_access_token
Thread(kind, id, shared) ==
    [kind |-> kind, id |-> id, shared |-> shared, pc |-> "read",
     attempt |-> "initial", own |-> NoWrites, before |-> NoToken,
     current_time |-> 0, data |-> NoAnswer, complete |-> TRUE, n |-> 0,
     outcome |-> "none"]

\* what the token endpoint can answer: an error, a token set, or a 2xx body
\* that lacks the session_state member
Responses(n) ==
    {r \in [data : LoginAnswers(n), complete : BOOLEAN] :
        r.data.ok \/ r.complete}

\* the threads between reading the token row and the end of their update
Refreshing == {th \in threads : th.pc \in {"exchange", "secrets", "rest"}}

\* the scheduler hands a due refresh job to the pool
FireRefreshThread ==
    \E j \in jobs :
        /\ Due(j)
        /\ j.func = "auto_refresh_token"
        /\ \A th \in threads : th.id # j.id
        /\ jobs' = dispatched(jobs, j)
        /\ threads' = threads \cup {Thread("job", j.id, TRUE)}
        /\ last' = Last("fire_refresh", 0, "none", <<>>, "none", 0)
        /\ UNCHANGED <<now, phase, config, schedules, token, inflight,
                       cancelling, exchanges, requests, dirty>>

\* the scheduler hands a due booking job to the pool: book_slot with the
\* session of main, or book_slot_wrapper, which opens its own
FireBookingThread ==
    \E j \in jobs :
        /\ Due(j)
        /\ j.func \in {"book_slot", "book_slot_wrapper"}
        /\ \A th \in threads : th.id # j.id
        /\ jobs' = dispatched(jobs, j)
        /\ threads' = threads \cup {Thread("booking", j.id, j.func = "book_slot")}
        /\ last' = Last("fire_booking", j.id[2], "none", <<>>, "none", 0)
        /\ UNCHANGED <<now, phase, config, schedules, token, inflight,
                       cancelling, exchanges, requests, dirty>>

\* POST /api/token/refresh up to its call of get_fresh_access_token
ApiRefreshThread ==
    /\ phase = "up"
    /\ requests < MaxRequests
    /\ requests' = requests + 1
    /\ \A th \in threads : th.kind # "endpoint"
    /\ IF ~token.present
       THEN /\ last' = Last("refresh_token", 0, "404", <<>>, "none", 0)
            /\ UNCHANGED threads
       ELSE IF token.refresh_expiry # 0 /\ token.refresh_expiry < now
       THEN /\ last' = Last("refresh_token", 0, "400", <<>>, "none", 0)
            /\ UNCHANGED threads
       ELSE /\ threads' = threads \cup {Thread("endpoint", <<"endpoint", 0>>,
                                               FALSE)}
            /\ last' = Last("refresh_token", 0, "none", <<>>, "none", 0)
    /\ UNCHANGED <<now, phase, config, schedules, token, jobs, inflight,
                   cancelling, exchanges, dirty>>

\* get_fresh_access_token up to the request: the row is read, the two guards
\* are evaluated, the stored refresh secret is submitted
ReadToken ==
    \E th \in threads :
        /\ th.pc = "read"
        /\ LET tok == session_token(th)
               th1 == [th EXCEPT !.before = tok, !.current_time = now]
           IN  threads' = (threads \ {th}) \cup
                   {IF ~tok.present
                    THEN [th1 EXCEPT !.pc = "returned", !.outcome = "failed"]
                    ELSE IF access_still_valid(tok, now)
                    THEN [th1 EXCEPT !.pc = "returned", !.outcome = "valid"]
                    ELSE IF refresh_expired(tok, now)
                    THEN [th1 EXCEPT !.pc = "returned", !.outcome = "expired"]
                    ELSE [th1 EXCEPT !.pc = "exchange"]}
        /\ last' = Last("get_fresh_access_token", 0, "read", <<>>, "none", 0)
        /\ UNCHANGED <<now, phase, config, schedules, token, jobs, inflight,
                       cancelling, exchanges, requests, dirty>>

\* the token endpoint answers the request of a thread
Respond ==
    \E th \in threads :
        /\ th.pc = "exchange"
        /\ \E r \in Responses(exchanges) :
              IF r.data.ok
              THEN /\ exchanges' = exchanges + 1
                   /\ threads' = (threads \ {th}) \cup
                        {[th EXCEPT !.pc = "secrets", !.data = r.data,
                                    !.complete = r.complete,
                                    !.n = exchanges + 1]}
              ELSE /\ exchanges' = exchanges
                   /\ threads' = (threads \ {th}) \cup
                        {[th EXCEPT !.pc = "returned", !.outcome = "failed"]}
        /\ last' = Last("get_fresh_access_token", 0, "response", <<>>,
                        "none", 1)
        /\ UNCHANGED <<now, phase, config, schedules, token, jobs, inflight,
                       cancelling, requests, dirty>>

\* the session of th after the assignments ws (pairs of field and value)
RECURSIVE assign_all(_, _)
assign_all(d, ws) ==
    IF ws = <<>> THEN d
    ELSE assign_all(assign(d, ws[1][1], ws[1][2]), Tail(ws))

\* token.access_token = ...; token.refresh_token = ...
AssignSecrets ==
    \E th \in threads :
        /\ th.pc = "secrets"
        /\ LET d == assign_all(session_writes(th),
                      <<<<"access_token", fernet_encrypt(issued_access(th.n))>>,
                        <<"refresh_token",
                          fernet_encrypt(issued_refresh(th.n))>>>>)
           IN  IF th.shared
               THEN /\ dirty' = d
                    /\ threads' = (threads \ {th}) \cup
                                      {[th EXCEPT !.pc = "rest"]}
               ELSE /\ dirty' = dirty
                    /\ threads' = (threads \ {th}) \cup
                                      {[th EXCEPT !.pc = "rest", !.own = d]}
        /\ last' = Last("get_fresh_access_token", 0, "secrets", <<>>,
                        "none", 0)
        /\ UNCHANGED <<now, phase, config, schedules, token, jobs, inflight,
                       cancelling, exchanges, requests>>

\* token.access_expiry = ...; token.refresh_expiry = ...;
\* token.session_state = data["session_state"]; db.commit(); the cadence
\* re-armed when a scheduler was passed (the refresh endpoint passes it). A
\* body without session_state raises KeyError after the expiries were
\* assigned: nothing is committed and nothing is rolled back.
AssignRest ==
    \E th \in threads :
        /\ th.pc = "rest"
        /\ LET d1 == assign_all(session_writes(th),
                       <<<<"access_expiry",
                           th.current_time + th.data.expires_in>>,
                         <<"refresh_expiry",
                           th.current_time + th.data.refresh_expires_in>>>>)
               d2 == assign(d1, "session_state", <<"session", th.n>>)
           IN  IF th.complete
               THEN /\ token' = flush(token, d2)
                    /\ dirty' = IF th.shared THEN NoWrites ELSE dirty
                    /\ threads' = (threads \ {th}) \cup
                          {[th EXCEPT !.pc = "returned", !.own = NoWrites,
                                      !.outcome = "refreshed"]}
                    /\ jobs' = IF th.kind = "endpoint"
                               THEN schedule_next_token_refresh(
                                        jobs, flush(token, d2), now)
                               ELSE jobs
               ELSE /\ token' = token
                    /\ dirty' = IF th.shared THEN d1 ELSE dirty
                    /\ threads' = (threads \ {th}) \cup
                          {[th EXCEPT !.pc = "returned",
                                      !.own = IF th.shared THEN th.own ELSE d1,
                                      !.outcome = "failed"]}
                    /\ jobs' = jobs
        /\ last' = Last("get_fresh_access_token", 0, "rest", <<>>, "none", 0)
        /\ UNCHANGED <<now, phase, config, schedules, inflight, cancelling,
                       exchanges, requests>>

\* the rest of auto_refresh_token: the cadence re-armed when the
\* expiry-protection job is in the table, or the retry job armed when
\* get_fresh_access_token raised
RefreshThreadEnd ==
    \E th \in threads :
        /\ th.kind = "job"
        /\ th.pc = "returned"
        /\ jobs' = IF th.outcome \in {"failed", "expired"}
                   THEN add_job(jobs, Job(RetryId, now + RETRY_BACKOFF,
                                          "auto_refresh_token", "date"), TRUE)
                   ELSE IF JobsWithId(jobs, ExpiryProtectionId) # {}
                   THEN schedule_next_token_refresh(jobs, session_token(th),
                                                    now)
                   ELSE jobs
        /\ threads' = threads \ {th}
        /\ last' = Last("auto_refresh_token", th.id, th.outcome, <<>>,
                        "none", 0)
        /\ UNCHANGED <<now, phase, config, schedules, token, inflight,
                       cancelling, exchanges, requests, dirty>>

\* the rest of POST /api/token/refresh: the answer is sent and get_db closes
\* the session of the request, which drops its uncommitted assignments
ApiRefreshEnd ==
    \E th \in threads :
        /\ th.kind = "endpoint"
        /\ th.pc = "returned"
        /\ threads' = threads \ {th}
        /\ last' = Last("refresh_token", 0, th.outcome, <<>>, "none", 0)
        /\ UNCHANGED <<now, phase, config, schedules, token, jobs, inflight,
                       cancelling, exchanges, requests, dirty>>

\* the rest of book_slot once get_fresh_access_token has returned or raised:
\* the booking call; a first attempt that raised calls book_slot again for
\* the other amenity; otherwise the status is set and the finally block
\* commits the session, with every assignment made in it
BookSlotRest ==
    \E th \in threads :
        /\ th.kind = "booking"
        /\ th.pc = "returned"
        /\ \E call \in (IF th.outcome \in {"valid", "refreshed"}
                        THEN CallOutcomes ELSE {"refused"}) :
              IF call # "accepted" /\ th.attempt = "initial"
              THEN /\ threads' = (threads \ {th}) \cup
                         {[th EXCEPT !.pc = "read", !.attempt = "retry",
                                     !.outcome = "none"]}
                   /\ last' = Last("book_slot", th.id[2], "retry", <<>>,
                                   "none", 0)
                   /\ UNCHANGED <<schedules, token, dirty>>
              ELSE /\ schedules' =
                         [schedules EXCEPT ![th.id[2]].status =
                              IF call = "accepted" THEN "success" ELSE "failed"]
                   /\ token' = IF token.present
                               THEN flush(token, session_writes(th))
                               ELSE token
                   /\ dirty' = IF th.shared THEN NoWrites ELSE dirty
                   /\ threads' = threads \ {th}
                   /\ last' = Last("book_slot", th.id[2], "committed", <<>>,
                                   "none", 0)
        /\ UNCHANGED <<now, phase, config, jobs, inflight, cancelling,
                       exchanges, requests>>

\* a one-off request the earlier run served, whose second row triggers at
\* the instant the expiry-protection job of the earlier token is due
OneOffAtRefresh ==
    [schedule_type |-> "one-off",
     desired |-> astimezone_eastern(EarlierToken.refresh_expiry - SAFETY_MARGIN),
     court_id |-> "1", day_of_week |-> 0, time |-> 0, occurrences |-> 1]

SessionDeployments ==
    {[config |-> <<>>, schedules |-> earlier_rows(OneOffAtRefresh, st, "pending"),
      token |-> EarlierToken] : st \in {"success", "pending"}}

\* a restart over the rows and the token of an earlier run
SessionInit ==
    /\ now = StartTime
    /\ phase = "down"
    /\ \E d \in SessionDeployments :
          /\ config = d.config
          /\ schedules = d.schedules
          /\ token = d.token
    /\ jobs = {}
    /\ inflight = {}
    /\ cancelling = {}
    /\ exchanges = 0
    /\ requests = 0
    /\ dirty = NoWrites
    /\ threads = {}
    /\ last = NoOperation

\* time passes while no thread is at work
SessionTick == threads = {} /\ Tick

SessionNext ==
    \/ Boot
    \/ SessionTick
    \/ FirePlaywright
    \/ FireRefreshThread
    \/ FireBookingThread
    \/ ApiRefreshThread
    \/ ReadToken
    \/ Respond
    \/ AssignSecrets
    \/ AssignRest
    \/ RefreshThreadEnd
    \/ ApiRefreshEnd
    \/ BookSlotRest

SessionSpec == SessionInit /\ [][SessionNext]_vars

\* the step ends the get_fresh_access_token call of thread th in failure
\* (th2 is the thread after the step), no other thread being at work and
\* the row being the one the call read
FailsRefresh(th, th2) ==
    /\ threads = {th}
    /\ token = th2.before
    /\ th2.id = th.id
    /\ th.pc \in {"read", "exchange", "secrets", "rest"}
    /\ th2.pc = "returned"
    /\ th2.outcome \in {"failed", "expired"}
    /\ th2.before.present

\* C11: when a call of get_fresh_access_token ends in failure, the five
\* fields of the token, as the session of the caller shows them to the next
\* reader and as its next commit writes them, are those the call read when
\* it started.
C11_FailureLeavesCredential ==
    [][\A th \in threads, th2 \in threads' :
          FailsRefresh(th, th2) =>
              (IF th2.shared THEN flush(token', dirty') ELSE token')
                  = th2.before]_vars

\* C15: at no time are two threads between reading the token row and the end
\* of their update, and no two requests to the token endpoint that are in
\* flight together carry the same stored refresh secret.
C15_RefreshesSerialized ==
    /\ Cardinality(Refreshing) <= 1
    /\ \A a, b \in threads :
          (a # b /\ a.pc = "exchange" /\ b.pc = "exchange") =>
              a.before.refresh_token # b.before.refresh_token

\* every field of the token row tok comes from one response of the token
\* endpoint, or tok is the row the restart started from
AllOfOneResponse(tok) ==
    \/ ~tok.present
    \/ LET n == fernet_decrypt(tok.access_token)[2]
       IN  /\ tok.session_state = <<"session", n>>
           /\ IF n = 0
              THEN /\ fernet_decrypt(tok.refresh_token) \in
                          {issued_refresh(0), FileRefreshToken}
                   /\ tok.access_expiry = EarlierToken.access_expiry
                   /\ tok.refresh_expiry = EarlierToken.refresh_expiry
              ELSE /\ fernet_decrypt(tok.refresh_token) = issued_refresh(n)
                   /\ \E d \in ExchangeOutcomes :
                          /\ d.ok
                          /\ tok.refresh_expiry - tok.access_expiry
                                 = d.refresh_expires_in - d.expires_in

\* C16: the committed token row, and the token as any thread read it, has
\* all its fields from one response (or is the row the run started from).
C16_CredentialAllOfOneResponse ==
    /\ AllOfOneResponse(token)
    /\ \A th \in threads : th.pc # "read" => AllOfOneResponse(th.before)

(* ------------------------------ the fallback --------------------------- *)
\* C26: one run of book_slot makes at most two calls to the booking
\* endpoint, at most one in its first attempt and at most one in its retry,
\* the retry after the first attempt; a retry that fails is followed by no
\* further call and the row is committed as failed.
C26_AtMostTwoBookingCalls ==
    [][JustBooked' =>
          LET calls == last'.calls
          IN  /\ Len(calls) <= 2
              /\ \A k \in 1..Len(calls) :
                     calls[k].attempt = "retry" =>
                         /\ k = Len(calls)
                         /\ \A m \in 1..(k - 1) :
                                calls[m].attempt = "initial"
              /\ (Len(calls) = 2 /\ calls[2].outcome # "accepted") =>
                     last'.ret = "failed"]_vars

\* book_slot has just ended after both of its calls were refused
C26_Witness ==
    /\ JustBooked
    /\ Len(last.calls) = 2
    /\ last.calls[1].outcome = "refused"
    /\ last.calls[2].outcome = "refused"
    /\ last.ret = "failed"

(* ------------------------------- statuses ------------------------------ *)
\* C27: no step puts a row that is not pending back to pending; the rows a
\* step adds (a creation request, the configuration file at a restart) are
\* the only ones it makes pending.
C27_NeverPendingAgain ==
    [][/\ Len(schedules') >= Len(schedules)
       /\ \A i \in 1..Len(schedules) :
              schedules[i].status # "pending" =>
                  schedules'[i].status # "pending"
       /\ \A i \in (Len(schedules) + 1)..Len(schedules') :
              schedules'[i].status = "pending"]_vars

\* book_slot has just committed a status for a row that a cancellation had
\* taken out of pending while the booking was in flight
C27_Witness ==
    /\ JustBooked
    /\ last.path = "cancelled"
    /\ schedules[last.id].status \in {"success", "failed"}

(* ------------------------------- creation ------------------------------ *)
\* schedules.json with one weekly rule of 1 to MaxEntries instances, on
\* today's weekday at a time of day that is still ahead
RecurringConfigFiles ==
    { <<[type |-> "recurring",
         rrule |-> [byday |-> weekday(astimezone_eastern(StartTime)),
                    time |-> (astimezone_eastern(StartTime) % DAY) + 1200,
                    count |-> n],
         court_id |-> "1"]>> : n \in 1..MaxEntries }

\* a first start over either kind of configuration file
CreateDeployments ==
    {[config |-> c, schedules |-> <<>>, token |-> NoToken] :
        c \in ConfigFiles \cup RecurringConfigFiles}

CreateInit ==
    /\ now = StartTime
    /\ phase = "down"
    /\ \E d \in CreateDeployments :
          /\ config = d.config
          /\ schedules = d.schedules
          /\ token = d.token
    /\ jobs = {}
    /\ inflight = {}
    /\ cancelling = {}
    /\ exchanges = 0
    /\ requests = 0
    /\ dirty = NoWrites
    /\ threads = {}
    /\ last = NoOperation

\* the creation requests, and a weekly recurrence of more occurrences
CreateRequests ==
    Requests
    \cup {[schedule_type |-> "recurring", desired |-> 0, court_id |-> "2",
           day_of_week |-> (weekday(astimezone_eastern(StartTime)) + d) % 7,
           time |-> (astimezone_eastern(StartTime) % DAY) - 1200,
           occurrences |-> MaxEntries + 1] : d \in {0, 2}}

\* both creation paths: the initial load and POST /api/schedules
CreateNext ==
    \/ Boot
    \/ Tick
    \/ CreateScheduleFrom(CreateRequests, MaxInsertEntries)

CreateSpec == CreateInit /\ [][CreateNext]_vars

\* the step creates rows: the initial load or a creation request
Creating == last'.op \in {"init_scheduler", "create_schedule"}

\* C28: every row created at time now has its trigger 168 hours before its
\* desired instant when that is more than 7 days after now, and shortly
\* after now (within IMMEDIATE_DELAY) when it is at most 7 days after now,
\* for both kinds and both creation paths; no row is created with a trigger
\* that is already past.
C28_TriggerFromDesired ==
    [][Creating =>
          \A i \in NewIds :
              LET desired == desired_instant(schedules'[i])
                  trigger == trigger_instant(schedules'[i])
              IN  IF desired - now > ADVANCE_WINDOW
                  THEN trigger = desired - ADVANCE_WINDOW
                  ELSE trigger > now /\ trigger <= now + IMMEDIATE_DELAY]_vars

\* the rows a creation request req served at time t must add: two one-off
\* rows at the requested wall clock and one week later, or one recurring row
\* per occurrence (two for a single occurrence) one week apart from the next
\* occurrence of the requested weekday, all pending; the week is counted
\* between desired instants or between desired wall clocks
Materializes(rows, req, t, as_instants) ==
    LET at(s) == IF as_instants THEN desired_instant(s) ELSE s.desired_time
        count == IF req.schedule_type = "one-off" \/ req.occurrences = 1
                 THEN 2 ELSE req.occurrences
        first == IF req.schedule_type = "one-off" THEN req.desired
                 ELSE get_next_day_occurrence(req.day_of_week, req.time, t)
    IN  /\ Len(rows) = count
        /\ \A k \in 1..Len(rows) :
              /\ rows[k].type = req.schedule_type
              /\ rows[k].status = "pending"
              /\ rows[k].court_id = req.court_id
              /\ at(rows[k]) = at([desired_time |-> first]) + (k - 1) * WEEK

\* the next occurrence of a weekday is on that weekday, at the requested
\* time of day, after now and at most a week after now
NextOccurrence(req, t) ==
    LET first == get_next_day_occurrence(req.day_of_week, req.time, t)
    IN  /\ weekday(first) = req.day_of_week
        /\ first % DAY = req.time
        /\ first > astimezone_eastern(t)
        /\ first <= astimezone_eastern(t) + WEEK

\* C29 as stated: the rows of a creation request have desired instants one
\* week (168 hours) apart: D and D + 1 week for a one-off request, the next
\* occurrence and the following weeks for a recurring one.
C29_OneWeekApartInstants ==
    [][Inserting =>
          \E req \in CreateRequests :
              Materializes(SubSeq(schedules', Len(schedules) + 1,
                                  Len(schedules')),
                           req, now, TRUE)]_vars

\* C29 (amended): a one-off request adds exactly two pending one-off rows
\* whose desired wall clocks are D and D + 7 days; a recurring request of
\* N >= 2 occurrences adds exactly N pending recurring rows whose desired
\* wall clocks are 7 days apart from the next occurrence of the requested
\* weekday; a recurring request of one occurrence adds exactly two; and
\* every row added is handed to the scheduler, which arms a booking job
\* keyed to it.
C29_RequestMaterialization ==
    [][Inserting =>
          /\ \E req \in CreateRequests :
                /\ Materializes(SubSeq(schedules', Len(schedules) + 1,
                                       Len(schedules')),
                                req, now, FALSE)
                /\ req.schedule_type = "recurring" => NextOccurrence(req, now)
          /\ \A i \in NewIds : JobsWithId(jobs', BookingId(i)) # {}
          /\ \A j \in jobs' \ jobs : \E i \in NewIds :
                j.id \in {BookingId(i), PlaywrightId(i)}]_vars

C29_Witness ==
    /\ last.op = "create_schedule"
    /\ Len(schedules) - last.id + 1 = MaxEntries + 1
    /\ \A i \in last.id..Len(schedules) :
          /\ schedules[i].type = "recurring"
          /\ JobsWithId(jobs, BookingId(i)) # {}

(* ------------------------------ round trip ----------------------------- *)
\* the trigger instants the creation code computes at time t for a row of
\* the given desired instant, before the row is stored
computed_triggers(desired, t) ==
    {t + IMMEDIATE_DELAY, t + CONFIG_IMMEDIATE_DELAY, desired - ADVANCE_WINDOW}

\* C30: a trigger instant that is stored as a zone-less Eastern wall clock
\* and read back with to_eastern is the instant that was computed before
\* storage: the trigger read back from every row a step creates is one of
\* the instants the creation code computes for it.
C30_RoundTripPreservesInstants ==
    [][Creating =>
          \A i \in NewIds :
              trigger_instant(schedules'[i])
                  \in computed_triggers(desired_instant(schedules'[i]), now)]_vars

(* --------------------------- successive calls -------------------------- *)
\* the state is the one a call of get_fresh_access_token that refreshed the
\* token has just left
JustRefreshed ==
    /\ last.op \in {"refresh_token", "auto_refresh_token"}
    /\ last.path = "refreshed"

\* C21: a call of get_fresh_access_token made right after a call that
\* started from a token that was not valid and refreshed it finds the token
\* valid, calls the token endpoint not at all and returns the stored access
\* secret: the two calls make one exchange in total.
C21_SecondCallMakesNoExchange ==
    [][(JustRefreshed /\ (EndpointCall \/ RefreshJobCall \/ BookingCall)) =>
          /\ last.exch = 1
          /\ Valid
          /\ exchanges' = exchanges
          /\ last'.exch = 0
          /\ token' = token
          /\ (EndpointCall \/ RefreshJobCall) =>
                 /\ last'.path = "valid"
                 /\ last'.ret = fernet_decrypt(token.access_token)]_vars

\* a call has just been answered from the token that a refresh at this same
\* instant stored
C21_Witness ==
    /\ last.op \in {"refresh_token", "auto_refresh_token"}
    /\ last.path = "valid"
    /\ last.exch = 0
    /\ exchanges = 1
    /\ \E a \in AccessLifetimes : token.access_expiry = now + a

(* ------------------------------ monotonicity --------------------------- *)
\* a second passes while a thread waits for the answer of the token
\* endpoint, up to MaxLatency seconds per request; a job that has come due
\* meanwhile is still within its misfire grace time
OverlapTick ==
    /\ \E th \in threads : th.pc = "exchange"
    /\ \A th \in threads :
          th.pc = "exchange" => now < th.current_time + MaxLatency
    /\ \A j \in jobs : now + 1 - j.run_date <= MISFIRE_GRACE_TIME
    /\ now' = now + 1
    /\ last' = NoOperation
    /\ UNCHANGED <<dirty, threads, requests, phase, config, schedules, token,
                   jobs, inflight, cancelling, exchanges>>

\* refreshes by the refresh jobs and the refresh endpoint, statement by
\* statement, with the clock running during the requests
OverlapNext ==
    \/ Boot
    \/ SessionTick
    \/ OverlapTick
    \/ FireRefreshThread
    \/ ApiRefreshThread
    \/ ReadToken
    \/ Respond
    \/ AssignSecrets
    \/ AssignRest
    \/ RefreshThreadEnd
    \/ ApiRefreshEnd

OverlapSpec == SessionInit /\ [][OverlapNext]_vars

\* C22: no step lowers the stored access_expiry or refresh_expiry of the
\* token row, whichever refresh (get_fresh_access_token from a job, a
\* booking or the endpoint, the login job) commits it and in whatever order
\* overlapping refreshes commit.
C22_ExpiriesNeverDecrease ==
    [][(token.present /\ token'.present) =>
          /\ token'.access_expiry >= token.access_expiry
          /\ token'.refresh_expiry >= token.refresh_expiry]_vars

(* ---------------------------- manual refresh --------------------------- *)
\* a manual refresh that re-arms nothing
refresh_with_new_token_without_rearm(tok, J, t, data, n, has_scheduler) ==
    IF ~data.ok
    THEN [path |-> "failed", raised |-> TRUE, token |-> tok, jobs |-> J,
          exch |-> 1, issued |-> 0]
    ELSE [path |-> "refreshed", raised |-> FALSE,
          token |-> updated_token(t, data, n + 1), jobs |-> J,
          exch |-> 1, issued |-> 1]

\* refresh_with_new_token(db, fernet, new_refresh_token, scheduler) at time
\* t, the endpoint answering `data` to the supplied secret: the exchange is
\* made whatever the stored token is; on success the row is created or
\* overwritten from the response and committed, and the cadence re-armed
\* when a scheduler was passed; a failure raises before anything is
\* committed
refresh_with_new_token(tok, J, t, data, n, has_scheduler) ==
    IF ~data.ok
    THEN [path |-> "failed", raised |-> TRUE, token |-> tok, jobs |-> J,
          exch |-> 1, issued |-> 0]
    ELSE LET new == updated_token(t, data, n + 1)
         IN  [path |-> "refreshed", raised |-> FALSE, token |-> new,
              jobs |-> IF has_scheduler
                       THEN schedule_next_token_refresh(J, new, t)
                       ELSE J,
              exch |-> 1, issued |-> 1]

\* POST /api/token/refresh-manual
ApiRefreshManual ==
    \E data \in LoginAnswers(exchanges) :
        /\ phase = "up"
        /\ requests < MaxRequests
        /\ requests' = requests + 1
        /\ LET r == refresh_with_new_token(token, jobs, now, data, exchanges,
                                           TRUE)
           IN  /\ token' = r.token
               /\ jobs' = r.jobs
               /\ exchanges' = exchanges + r.issued
               /\ last' = Last("refresh_token_manual", 0, r.path, <<>>,
                               "none", r.exch)
        /\ UNCHANGED <<dirty, threads, now, phase, config, schedules, inflight,
                       cancelling>>

\* the refresh jobs and the manual refresh endpoint over every deployment
ManualNext ==
    \/ Boot
    \/ Tick
    \/ FireRefresh
    \/ ApiRefreshManual

ManualSpec == Init /\ [][ManualNext]_vars

\* the step serves POST /api/token/refresh-manual
ManualCall == last'.op = "refresh_token_manual"

\* C23: a manual refresh whose exchange succeeds leaves one token row that
\* holds the secrets and expiries of the response, whatever the row was
\* before (valid, in need of refresh or expired), and re-arms the cadence:
\* the interval job 20 minutes ahead and, when refresh_expiry - 30 s is
\* still ahead, the expiry-protection job at that instant, one job per key;
\* when the exchange fails the token row and the job table are unchanged.
C23_ManualRefreshOverwritesAndRearms ==
    [][ManualCall =>
          IF last'.path = "refreshed"
          THEN /\ exchanges' = exchanges + 1
               /\ token'.present
               /\ token'.access_token = fernet_encrypt(issued_access(exchanges'))
               /\ token'.refresh_token =
                      fernet_encrypt(issued_refresh(exchanges'))
               /\ token'.access_expiry - now \in AccessLifetimes
               /\ token'.refresh_expiry - now \in RefreshLifetimes
               /\ JobsWithId(jobs', IntervalId) =
                      {Job(IntervalId, now + REFRESH_INTERVAL,
                           "auto_refresh_token", "interval")}
               /\ token'.refresh_expiry - SAFETY_MARGIN > now =>
                      JobsWithId(jobs', ExpiryProtectionId) =
                          {Job(ExpiryProtectionId,
                               token'.refresh_expiry - SAFETY_MARGIN,
                               "auto_refresh_token", "date")}
               /\ \A j \in jobs' \ jobs :
                      j.id \in {IntervalId, ExpiryProtectionId}
          ELSE /\ token' = token
               /\ jobs' = jobs]_vars

\* a manual refresh has just replaced the token of an earlier exchange and
\* armed both refresh jobs
C23_Witness ==
    /\ last.op = "refresh_token_manual"
    /\ last.path = "refreshed"
    /\ exchanges = 2
    /\ token.refresh_token = fernet_encrypt(issued_refresh(2))
    /\ JobsWithId(jobs, IntervalId) # {}
    /\ JobsWithId(jobs, ExpiryProtectionId) # {}

(* ------------------------------- startup ------------------------------- *)
\* main(), statement by statement: phase is the statement it has reached
\* load_configs(db, schedules_path, tokens_path)
LoadConfigs ==
    /\ phase = "down"
    /\ Len(schedules) + Len(config) <= MaxEntries
    /\ schedules' = schedules \o config_rows(config, now)
    /\ token' = load_token(token, now)
    /\ phase' = "loaded"
    /\ last' = Last("load_configs", 0, "none", <<>>, "none", 0)
    /\ UNCHANGED <<dirty, threads, requests, now, config, jobs, inflight,
                   cancelling, exchanges>>

\* init_scheduler(scheduler, db)
InitScheduler ==
    /\ phase = "loaded"
    /\ jobs' = init_scheduler(jobs, schedules, token, now)
    /\ phase' = "armed"
    /\ last' = Last("init_scheduler", 0, "none", <<>>, "none", 0)
    /\ UNCHANGED <<dirty, threads, requests, now, config, schedules, token,
                   inflight, cancelling, exchanges>>

\* scheduler.start()
SchedulerStart ==
    /\ phase = "armed"
    /\ phase' = "started"
    /\ last' = Last("scheduler.start", 0, "none", <<>>, "none", 0)
    /\ UNCHANGED <<dirty, threads, requests, now, config, schedules, token,
                   jobs, inflight, cancelling, exchanges>>

\* set_scheduler(scheduler)
SetScheduler ==
    /\ phase = "started"
    /\ phase' = "published"
    /\ last' = Last("set_scheduler", 0, "none", <<>>, "none", 0)
    /\ UNCHANGED <<dirty, threads, requests, now, config, schedules, token,
                   jobs, inflight, cancelling, exchanges>>

\* api_thread.start(): run_api_server
RunApiServer ==
    /\ phase = "published"
    /\ phase' = "up"
    /\ last' = Last("run_api_server", 0, "none", <<>>, "none", 0)
    /\ UNCHANGED <<dirty, threads, requests, now, config, schedules, token,
                   jobs, inflight, cancelling, exchanges>>

\* get_scheduler(): the handle set_scheduler has stored, if any
get_scheduler(ph) == ph \in {"published", "up"}

\* an API thread that main starts before anything else
api_thread_started_first(ph) == TRUE

\* the API serves requests once main has started its thread
api_thread_started(ph) == ph = "up"

\* create_schedule: without a scheduler the request is answered 500 before
\* create_schedules_from_request is called
create_schedule(ph, S, J, req, t) ==
    IF ~get_scheduler(ph)
    THEN [path |-> "500", schedules |-> S, jobs |-> J]
    ELSE LET S1 == S \o request_rows(req, t)
         IN  [path |-> "created", schedules |-> S1,
              jobs |-> add_schedules(J, S1, (Len(S) + 1)..Len(S1), t)]

\* cancel_schedule: the status is committed, then the booking job removed
\* when there is a scheduler
cancel_schedule(ph, S, J, i) ==
    IF i \notin 1..Len(S)
    THEN [path |-> "404", schedules |-> S, jobs |-> J]
    ELSE IF S[i].status # "pending"
    THEN [path |-> "400", schedules |-> S, jobs |-> J]
    ELSE [path |-> "cancelled",
          schedules |-> [S EXCEPT ![i].status = "cancelled"],
          jobs |-> IF get_scheduler(ph) THEN cancel_remove_jobs(J, i) ELSE J]

\* POST /api/schedules
StartupCreate ==
    \E req \in Requests :
        /\ api_thread_started(phase)
        /\ requests < MaxRequests
        /\ requests' = requests + 1
        /\ LET r == create_schedule(phase, schedules, jobs, req, now)
           IN  /\ Len(r.schedules) <= MaxInsertEntries
               /\ schedules' = r.schedules
               /\ jobs' = r.jobs
               /\ last' = Last("create_schedule", Len(schedules) + 1, r.path,
                               <<>>, "none", 0)
        /\ UNCHANGED <<dirty, threads, now, phase, config, token, inflight,
                       cancelling, exchanges>>

\* DELETE /api/schedules/{schedule_id}
StartupCancel ==
    \E i \in 1..(Len(schedules) + 1) :
        /\ api_thread_started(phase)
        /\ requests < MaxRequests
        /\ requests' = requests + 1
        /\ LET r == cancel_schedule(phase, schedules, jobs, i)
           IN  /\ schedules' = r.schedules
               /\ jobs' = r.jobs
               /\ last' = Last("cancel_schedule", i, r.path, <<>>, "none", 0)
        /\ UNCHANGED <<dirty, threads, now, phase, config, token, inflight,
                       cancelling, exchanges>>

\* time passes before main runs and once it has started everything
StartupTick == phase \in {"down", "up"} /\ Tick

StartupNext ==
    \/ LoadConfigs
    \/ InitScheduler
    \/ SchedulerStart
    \/ SetScheduler
    \/ RunApiServer
    \/ StartupTick
    \/ StartupCreate
    \/ StartupCancel

StartupSpec == Init /\ [][StartupNext]_vars

\* the step serves a creation or a cancellation request
ApiRequest == last'.op \in {"create_schedule", "cancel_schedule"}

\* what init_scheduler leaves: a booking job for every pending row whose
\* trigger is ahead, and the interval refresh job when the refresh secret
\* has not expired
StartupArmed ==
    /\ \A i \in Ids :
          (Pending(i) /\ trigger_instant(schedules[i]) > now) =>
              BookingJobs(i) # {}
    /\ (token.present /\ token.refresh_expiry > now) =>
          JobsWithId(jobs, IntervalId) # {}

\* C24: a creation or cancellation request is served only once main has
\* run init_scheduler, started the scheduler, published it with
\* set_scheduler and started the API thread, in that order, and with the
\* jobs of init_scheduler armed; a creation request served while no
\* scheduler is published is answered 500 and adds no row and no job.
C24_RequestsAfterStartup ==
    [][/\ ApiRequest => (phase = "up" /\ get_scheduler(phase) /\ StartupArmed)
       /\ (last'.op = "create_schedule" /\ ~get_scheduler(phase)) =>
              (last'.path = "500" /\ schedules' = schedules /\ jobs' = jobs)
       /\ phase' # phase =>
              <<phase, phase'>> \in {<<"down", "loaded">>, <<"loaded", "armed">>,
                                     <<"armed", "started">>,
                                     <<"started", "published">>,
                                     <<"published", "up">>}
       /\ (phase' = "armed" /\ phase # "armed") =>
              jobs' = init_scheduler(jobs, schedules, token, now)]_vars

\* a creation request has been served by the started process and its rows
\* are armed beside those of init_scheduler
C24_Witness ==
    /\ last.op = "create_schedule"
    /\ last.path = "created"
    /\ phase = "up"
    /\ last.id > 1
    /\ \A i \in Ids : Pending(i) => BookingJobs(i) # {}

(* --------------------------- concurrent re-arms ------------------------ *)
\* schedule_next_token_refresh, one scheduler call per step. A worker in it
\* holds the refresh_expiry and the current_time it read when it started.
RearmThread(kind, id, pc) ==
    [kind |-> kind, id |-> id, pc |-> pc, refresh_expiry |-> 0,
     current_time |-> 0]

\* scheduler.remove_job("token_refresh_interval")
rearm_remove_interval(J) == remove_job(J, IntervalId)

\* scheduler.add_job(auto_refresh_token, "interval", minutes=20, ...)
rearm_add_interval(J, t) ==
    add_job(J, Job(IntervalId, t + REFRESH_INTERVAL, "auto_refresh_token",
                   "interval"), TRUE)

\* the expiry-protection job is added when refresh_expiry - 30 is ahead of
\* the current_time the call read
rearm_add_expiry_protection(J, refresh_expiry, current_time) ==
    IF refresh_expiry - SAFETY_MARGIN > current_time
    THEN add_job(J, Job(ExpiryProtectionId, refresh_expiry - SAFETY_MARGIN,
                        "auto_refresh_token", "date"), TRUE)
    ELSE J

\* POST /api/token/refresh-manual up to its call of
\* schedule_next_token_refresh: the exchange has succeeded and the token row
\* is committed
RearmCall ==
    \E data \in {d \in LoginAnswers(exchanges) : d.ok} :
        /\ phase = "up"
        /\ requests < MaxRearmCalls
        /\ requests' = requests + 1
        /\ token' = updated_token(now, data, exchanges + 1)
        /\ exchanges' = exchanges + 1
        /\ threads' = threads \cup
               {RearmThread("endpoint", <<"endpoint", requests + 1>>, "read")}
        /\ last' = Last("refresh_token_manual", 0, "refreshed", <<>>, "none", 1)
        /\ UNCHANGED <<dirty, now, phase, config, schedules, jobs, inflight,
                       cancelling>>

\* a due refresh job is dispatched to a worker, which runs auto_refresh_token
RearmFire ==
    \E j \in jobs :
        /\ Due(j)
        /\ j.func = "auto_refresh_token"
        /\ \A th \in threads : th.id # j.id
        /\ jobs' = dispatched(jobs, j)
        /\ threads' = threads \cup {RearmThread("job", j.id, "get_fresh")}
        /\ last' = Last("fire_refresh", 0, "none", <<>>, "none", 0)
        /\ UNCHANGED <<dirty, requests, now, phase, config, schedules, token,
                       inflight, cancelling, exchanges>>

\* get_fresh_access_token of the worker up to its request: the row is read
\* and the two guards are evaluated
RearmGetFresh ==
    \E th \in threads :
        /\ th.pc = "get_fresh"
        /\ threads' = (threads \ {th}) \cup
               {[th EXCEPT !.current_time = now,
                           !.pc = IF access_still_valid(token, now)
                                  THEN "get_job"
                                  ELSE IF refresh_expired(token, now)
                                  THEN "retry"
                                  ELSE "exchange"]}
        /\ last' = Last("get_fresh_access_token", 0, "read", <<>>, "none", 0)
        /\ UNCHANGED <<dirty, requests, now, phase, config, schedules, token,
                       jobs, inflight, cancelling, exchanges>>

\* the answer of the token endpoint to the worker: the "Update token" block
\* and its commit, or the exception
RearmExchange ==
    \E th \in threads :
        /\ th.pc = "exchange"
        /\ \E data \in LoginAnswers(exchanges) :
              IF data.ok
              THEN /\ token' = updated_token(th.current_time, data,
                                             exchanges + 1)
                   /\ exchanges' = exchanges + 1
                   /\ threads' = (threads \ {th}) \cup
                                     {[th EXCEPT !.pc = "get_job"]}
              ELSE /\ UNCHANGED <<token, exchanges>>
                   /\ threads' = (threads \ {th}) \cup
                                     {[th EXCEPT !.pc = "retry"]}
        /\ last' = Last("get_fresh_access_token", 0, "response", <<>>,
                        "none", 1)
        /\ UNCHANGED <<dirty, requests, now, phase, config, schedules, jobs,
                       inflight, cancelling>>

\* auto_refresh_token: scheduler.get_job("token_refresh_expiry_protection"),
\* and the call of schedule_next_token_refresh when there is such a job
RearmGetJob ==
    \E th \in threads :
        /\ th.pc = "get_job"
        /\ threads' = IF JobsWithId(jobs, ExpiryProtectionId) # {}
                      THEN (threads \ {th}) \cup {[th EXCEPT !.pc = "read"]}
                      ELSE threads \ {th}
        /\ last' = Last("auto_refresh_token", th.id, "get_job", <<>>, "none", 0)
        /\ UNCHANGED <<dirty, requests, now, phase, config, schedules, token,
                       jobs, inflight, cancelling, exchanges>>

\* auto_refresh_token: the retry job armed after an exception
RearmRetry ==
    \E th \in threads :
        /\ th.pc = "retry"
        /\ jobs' = add_job(jobs, Job(RetryId, now + RETRY_BACKOFF,
                                     "auto_refresh_token", "date"), TRUE)
        /\ threads' = threads \ {th}
        /\ last' = Last("auto_refresh_token", th.id, "failed", <<>>, "none", 0)
        /\ UNCHANGED <<dirty, requests, now, phase, config, schedules, token,
                       inflight, cancelling, exchanges>>

\* schedule_next_token_refresh: the token row and the clock are read, and
\* the job "token_refresh" removed
RearmRead ==
    \E th \in threads :
        /\ th.pc = "read"
        /\ jobs' = remove_job(jobs, LegacyRefreshId)
        /\ threads' = (threads \ {th}) \cup
               {[th EXCEPT !.pc = "remove_interval",
                           !.refresh_expiry = token.refresh_expiry,
                           !.current_time = now]}
        /\ last' = Last("schedule_next_token_refresh", 0, "read", <<>>,
                        "none", 0)
        /\ UNCHANGED <<dirty, requests, now, phase, config, schedules, token,
                       inflight, cancelling, exchanges>>

RearmRemoveInterval ==
    \E th \in threads :
        /\ th.pc = "remove_interval"
        /\ jobs' = rearm_remove_interval(jobs)
        /\ threads' = (threads \ {th}) \cup {[th EXCEPT !.pc = "add_interval"]}
        /\ last' = Last("schedule_next_token_refresh", 0, "removed", <<>>,
                        "none", 0)
        /\ UNCHANGED <<dirty, requests, now, phase, config, schedules, token,
                       inflight, cancelling, exchanges>>

RearmAddInterval ==
    \E th \in threads :
        /\ th.pc = "add_interval"
        /\ jobs' = rearm_add_interval(jobs, now)
        /\ threads' = (threads \ {th}) \cup {[th EXCEPT !.pc = "add_expiry"]}
        /\ last' = Last("schedule_next_token_refresh", 0, "added", <<>>,
                        "none", 0)
        /\ UNCHANGED <<dirty, requests, now, phase, config, schedules, token,
                       inflight, cancelling, exchanges>>

\* the last scheduler call of schedule_next_token_refresh, and its return
RearmAddExpiryProtection ==
    \E th \in threads :
        /\ th.pc = "add_expiry"
        /\ jobs' = rearm_add_expiry_protection(jobs, th.refresh_expiry,
                                               th.current_time)
        /\ threads' = threads \ {th}
        /\ last' = Last("schedule_next_token_refresh", 0, "returned", <<>>,
                        "none", 0)
        /\ UNCHANGED <<dirty, requests, now, phase, config, schedules, token,
                       inflight, cancelling, exchanges>>

\* time passes while no worker is at work
RearmTick == threads = {} /\ TokenTick

RearmNext ==
    \/ Boot
    \/ RearmTick
    \/ RearmCall
    \/ RearmFire
    \/ RearmGetFresh
    \/ RearmExchange
    \/ RearmGetJob
    \/ RearmRetry
    \/ RearmRead
    \/ RearmRemoveInterval
    \/ RearmAddInterval
    \/ RearmAddExpiryProtection

RearmSpec == Init /\ [][RearmNext]_vars

\* C25: when a call of schedule_next_token_refresh returns and no other
\* call and no refresh worker is still at work, whatever the interleaving
\* of the calls with each other and with the dispatch of refresh jobs, the
\* interval job is armed, and the expiry-protection job is armed when the
\* stored refresh_expiry - 30 s is still ahead, one job per key.
C25_NoTimerLost ==
    [][(/\ last'.op = "schedule_next_token_refresh"
        /\ last'.path = "returned"
        /\ threads' = {}) =>
          /\ Cardinality(JobsWithId(jobs', IntervalId)) = 1
          /\ token'.refresh_expiry - SAFETY_MARGIN > now =>
                 Cardinality(JobsWithId(jobs', ExpiryProtectionId)) = 1]_vars

(* --------------------------- the accepted call ------------------------ *)
\* C32: in a book_slot firing, a booking call the endpoint accepted (2xx) is
\* the last call of the firing and the committed status is success, whether
\* or not the response body could be read afterwards.
C32_AcceptedCallIsFinal ==
    JustBooked =>
        \A k \in 1..Len(last.calls) :
            Accepted(last.calls[k]) =>
                /\ k = Len(last.calls)
                /\ schedules[last.id].status = "success"

(* ---------------------- firing after a cancellation ------------------- *)
\* C33: when a booking job is dispatched for a row that cancel_schedule has
\* already committed as cancelled (the job not yet removed), the book_slot
\* call that follows makes no booking call and leaves the status cancelled.
C33_FiringAfterCancelDoesNothing ==
    [][(/\ last.op = "fire_booking"
        /\ schedules[last.id].status = "cancelled"
        /\ last'.op = "book_slot"
        /\ last'.id = last.id) =>
           /\ last'.calls = <<>>
           /\ schedules'[last.id].status = "cancelled"]_vars

(* ----------------------------- past entries --------------------------- *)
\* the creation requests, and a one-off whose date and time are an hour back
PastRequests ==
    Requests
    \cup {[schedule_type |-> "one-off",
           desired |-> astimezone_eastern(StartTime - 3600),
           court_id |-> "1", day_of_week |-> 0, time |-> 0, occurrences |-> 1]}

\* creation, and the jobs that fire afterwards
PastNext ==
    \/ Boot
    \/ Tick
    \/ CreateScheduleFrom(PastRequests, MaxEntries)
    \/ FireRefresh
    \/ FirePlaywright
    \/ Misfire
    \/ FireBooking
    \/ BookSlotFinish

PastSpec == Init /\ [][PastNext]_vars

\* C34: a booking job is armed, at startup or by a creation request, only
\* for a row whose desired instant is after the instant of arming, and
\* book_slot makes a booking call only for a row whose desired instant is
\* after the instant of the call.
C34_NoBookingForPastEntry ==
    [][/\ \A j \in jobs' \ jobs :
              j.id[1] = "booking" =>
                  desired_instant(schedules'[j.id[2]]) > now
       /\ (last'.op = "book_slot" /\ last'.calls # <<>>) =>
              desired_instant(schedules'[last'.id]) > now']_vars

(* ------------------------------- restarts ----------------------------- *)
\* the process ends (KeyboardInterrupt: scheduler.shutdown() waits for the
\* jobs under way); the jobs of the in-memory job store are gone, the
\* database and the configuration file stay
Stop ==
    /\ phase = "up"
    /\ inflight = {}
    /\ cancelling = {}
    /\ phase' = "down"
    /\ jobs' = {}
    /\ last' = Last("shutdown", 0, "none", <<>>, "none", 0)
    /\ UNCHANGED <<now, config, schedules, token, inflight, cancelling,
                   exchanges, requests, dirty, threads>>

\* runs of main over one database and one unchanged schedules.json
RestartNext ==
    \/ Boot
    \/ Stop
    \/ Tick
    \/ FireRefresh
    \/ FirePlaywright
    \/ FireBooking
    \/ BookSlotFinish

RestartSpec == CreateInit /\ [][RestartNext]_vars

\* C35: whatever the number of runs of main over an unchanged
\* schedules.json, the table holds at most one row of a given kind, desired
\* time and court.
C35_OneEntryPerConfiguredBooking ==
    \A i, k \in Ids :
        (/\ schedules[i].type = schedules[k].type
         /\ schedules[i].desired_time = schedules[k].desired_time
         /\ schedules[i].court_id = schedules[k].court_id) => i = k

(* ------------------------------- liveness ----------------------------- *)
\* one run of main without cancellation: startup, creation requests, and
\* the jobs firing
LiveNext ==
    \/ Boot
    \/ Tick
    \/ FireRefresh
    \/ FirePlaywright
    \/ Misfire
    \/ FireBooking
    \/ BookSlotFinish
    \/ CreateSchedule

\* time passes, the scheduler thread processes every job whose run date has
\* come, and the pool runs every job function to its end
LiveSpec ==
    /\ Init
    /\ [][LiveNext]_vars
    /\ WF_vars(Tick)
    /\ WF_vars(FireRefresh)
    /\ WF_vars(FirePlaywright)
    /\ WF_vars(Misfire)
    /\ WF_vars(FireBooking)
    /\ WF_vars(BookSlotFinish)

\* C36: in a run without restart and without cancellation, in which armed
\* jobs are fired, every row for which a booking job is armed reaches the
\* status success or failed, and then no job keyed to it is left. Under
\* the fairness of LiveSpec this is the case exactly when no step takes the
\* booking job of a row out of the table without handing the row to
\* book_slot, and every book_slot ends with the row booked or failed and
\* no job keyed to it in the table.
C36_ArmedBookingSettles ==
    [][/\ \A i \in Ids :
              (BookingJobs(i) # {} /\ JobsWithId(jobs', BookingId(i)) = {}) =>
                  i \in inflight'
       /\ last'.op = "book_slot" =>
              /\ schedules'[last'.id].status \in {"success", "failed"}
              /\ JobsWithId(jobs', BookingId(last'.id)) = {}
              /\ JobsWithId(jobs', PlaywrightId(last'.id)) = {}]_vars

(* ------------------------- login before booking ----------------------- *)
\* C37: in every state, a login job and a booking job armed for the same row
\* have the login job's run date strictly before the booking job's, and
\* every step that arms a login job for a row (startup, normal or rescue
\* path, or a creation request) leaves a booking job armed for that row.
C37_LoginBeforeBooking ==
    [][/\ \A i \in 1..Len(schedules') :
              \A p \in JobsWithId(jobs', PlaywrightId(i)) :
                  \A b \in JobsWithId(jobs', BookingId(i)) :
                      p.run_date < b.run_date
       /\ \A p \in jobs' \ jobs :
              p.func = "playwright_login_wrapper" =>
                  JobsWithId(jobs', BookingId(p.id[2])) # {}]_vars

\* a creation request has just armed a login job and a booking job for one
\* of its rows
C37_Witness ==
    /\ last.op = "create_schedule"
    /\ \E i \in Ids :
          i >= last.id /\ BookingJobs(i) # {} /\ TokenPrepJobs(i) # {}

(* ---------------------- booking without a credential ------------------ *)
\* the step is a whole book_slot call: first attempt, retry, commit
Booking == last'.op = "book_slot"

\* C38 as stated: book_slot called with no token row, or with a token row
\* whose refresh_expiry is not after now, makes no booking call and commits
\* the status failed.
C38_ExpiredCredentialFailsBooking ==
    [][(Booking /\ (~token.present \/ token.refresh_expiry <= now)) =>
          /\ last'.calls = <<>>
          /\ schedules'[last'.id].status = "failed"]_vars

\* C38 amended: book_slot called with no token row, or with a token row
\* whose access_expiry is not after now + 2 and whose refresh_expiry is
\* before now, makes no booking call and no exchange, leaves the token row
\* as it is, commits the status failed and returns.
C38_UnusableCredentialFailsBooking ==
    [][(/\ Booking
        /\ \/ ~token.present
           \/ ~access_still_valid(token, now) /\ token.refresh_expiry < now) =>
          /\ last'.calls = <<>>
          /\ last'.exch = 0
          /\ token' = token
          /\ last'.ret = "failed"
          /\ schedules'[last'.id].status = "failed"
          /\ last'.id \notin inflight']_vars

\* a booking has just failed, without a call, on a token whose access and
\* refresh secrets had both expired
C38_Witness ==
    /\ last.op = "book_slot"
    /\ token.present
    /\ ~access_still_valid(token, now)
    /\ token.refresh_expiry < now
    /\ last.calls = <<>>
    /\ last.exch = 0
    /\ schedules[last.id].status = "failed"

(* -------------------------- who re-arms the cadence ------------------- *)
\* C39: a firing of the expiry-protection job that refreshes the token
\* re-arms the cadence (leaves an expiry-protection job at the new
\* refresh_expiry - 30 seconds, when that is still ahead), and a firing of
\* the interval job that refreshes the token does not: it leaves the
\* expiry-protection job as it was and the interval job at its own next run.
C39_OnlyExpiryProtectionRearms ==
    [][(RefreshJobCall /\ last'.path = "refreshed") =>
          /\ (last'.id = ExpiryProtectionId
              /\ token'.refresh_expiry - SAFETY_MARGIN > now) =>
                 \E j \in JobsWithId(jobs', ExpiryProtectionId) :
                     j.run_date = token'.refresh_expiry - SAFETY_MARGIN
          /\ last'.id = IntervalId =>
                 /\ JobsWithId(jobs', ExpiryProtectionId)
                        = JobsWithId(jobs, ExpiryProtectionId)
                 /\ \E j \in JobsWithId(jobs, IntervalId) :
                        jobs' = dispatched(jobs, j)]_vars

(* ------------------------ the cadence at startup ---------------------- *)
\* the token row exists and its refresh secret expires after now
Refreshable == token.present /\ token.refresh_expiry > now

\* C40: right after init_scheduler ran at now, refresh jobs are armed (the
\* interval job among them) exactly when a token row exists whose
\* refresh_expiry is after now; when none is armed, every pending row whose
\* trigger is ahead still has its booking job, and its login job when 4
\* minutes before the trigger is ahead, and every rescuable row has both.
C40_CadenceArmedIffRefreshable ==
    JustReconciled =>
        /\ Refreshable <=> RefreshJobs # {}
        /\ Refreshable <=> JobsWithId(jobs, IntervalId) # {}
        /\ ~Refreshable =>
              \A i \in Ids :
                  /\ (Pending(i) /\ trigger_instant(schedules[i]) > now) =>
                        /\ \E j \in BookingJobs(i) :
                               j.run_date = trigger_instant(schedules[i])
                        /\ trigger_instant(schedules[i]) - PREP_LEAD > now =>
                               TokenPrepJobs(i) # {}
                  /\ Rescuable(i) =>
                        BookingJobs(i) # {} /\ TokenPrepJobs(i) # {}

\* init_scheduler has just run over a token row whose refresh secret had
\* expired: no refresh job, and a pending row with both its jobs armed
C40_Witness ==
    /\ JustReconciled
    /\ token.present
    /\ token.refresh_expiry <= now
    /\ RefreshJobs = {}
    /\ \E i \in Ids :
          Pending(i) /\ BookingJobs(i) # {} /\ TokenPrepJobs(i) # {}

(* ---------------------- keeping the credential alive ------------------ *)
\* refresh lifetimes above SAFETY_MARGIN, one of them no longer than the
\* access lifetime
KeepAliveRefreshLifetimes == {200, 600}

\* the endpoint never fails: an exchange that is made hands out new secrets
KeepAliveAnswers(tok, t) ==
    IF tok.present /\ ~access_still_valid(tok, t) /\ ~refresh_expired(tok, t)
    THEN {[ok |-> TRUE, expires_in |-> a, refresh_expires_in |-> r] :
              a \in AccessLifetimes, r \in KeepAliveRefreshLifetimes}
    ELSE {NoAnswer}

\* a start with no booking rows, on a fresh installation or over the token
\* row of an earlier run, whose refresh secret has not expired
KeepAliveInit ==
    /\ now = StartTime
    /\ phase = "down"
    /\ config = <<>>
    /\ schedules = <<>>
    /\ token \in {NoToken, EarlierToken}
    /\ jobs = {}
    /\ inflight = {}
    /\ cancelling = {}
    /\ exchanges = 0
    /\ requests = 0
    /\ dirty = NoWrites
    /\ threads = {}
    /\ last = NoOperation

\* time passes once the scheduler is up
KeepAliveTick == phase = "up" /\ TokenTick

\* the application is started at once, every armed refresh job fires at its
\* instant, the refresh endpoint may be called at any time, and every
\* exchange succeeds
KeepAliveNext ==
    \/ Boot
    \/ KeepAliveTick
    \/ FireRefreshFrom(KeepAliveAnswers(token, now))
    \/ ApiRefreshTokenFrom(KeepAliveAnswers(token, now))

KeepAliveSpec == KeepAliveInit /\ [][KeepAliveNext]_vars

\* C31: from a non-expired token with its refresh jobs armed, when every
\* exchange succeeds with a refresh lifetime above 30 s and every job fires
\* at its run date, the refresh secret never expires (refresh_expiry stays
\* after now while the scheduler is up), and a firing of the job
\* token_refresh_expiry_protection performs an exchange, also when the
\* access token is still valid.
C31_CredentialKeptAlive ==
    [][/\ phase' = "up" => token'.present /\ token'.refresh_expiry > now'
       /\ (RefreshJobCall /\ last'.id = ExpiryProtectionId) => last'.exch = 1]_vars

\* its two halves, each violated on its own
C31_NeverExpired ==
    phase = "up" => token.present /\ token.refresh_expiry > now
C31_ExpiryProtectionExchanges ==
    [][(RefreshJobCall /\ last'.id = ExpiryProtectionId) => last'.exch = 1]_vars

====
